---- MODULE Spec2Model ----
(***************************************************************************)
(* Chat streaming core of app/agents/api.py: the request router            *)
(* (chat_streaming), the three handlers (handle_uyun, handle_dify,         *)
(* handle_agent_flow) and the three stream translators                     *)
(* (multi_agent_stream_generator, dify_stream_generator,                   *)
(* agentflow_stream_generator), with the response headers the handlers     *)
(* build and the background task they add; health_check and stream_agent   *)
(* of app/api/v1/agent.py, the latter over RAGAgent.stream and the default *)
(* BaseAgent.stream.                                                       *)
(*                                                                         *)
(* A text is a sequence of tokens.  A token is one character, or one of    *)
(* the in-band sentinels the translators search for ("loading...", "|",    *)
(* "thought", "flag"), or one fixed literal of the code.                   *)
(***************************************************************************)
EXTENDS Integers, Sequences, FiniteSets, TLC

\* Upstream lines one stream reads at most.
MaxLines == 3

\* Answer tokens one agent streams at most.
MaxTokens == 3

----------------------------------------------------------------------------
\* Literals of the code.

LOADING == "loading..."
PIPE == "|"
THOUGHT == "thought"
FLAG == "flag"
NL2 == "\\n\\n"
NL3 == "\\n\\n\\n"
NL1 == "\\n"
\* "识别用户意图..."
StepOneTopic == "identifying user intent..."
\* "识别用户意图...\n\n"
IntentPrefix == <<StepOneTopic, NL2>>
\* "正在规划任务，请稍后......."
PlanningText == <<"planning task, please wait.......">>
\* "<details open> <summary>深度思考</summary>"
FoldPrefix == "<details open> <summary>deep thinking</summary>"
\* "未知错误"
UnknownError == <<"unknown error">>
\* "流处理异常: "
StreamErrorPrefix == "stream processing exception: "
\* "暂无平台来源，请联系管理员！"
NoPlatformSourceMsg == "no platform source, contact admin"
\* "agentFlow 智能体需要提供 agent_name 参数"
AgentNameRequiredMsg == "agentFlow agent needs the agent_name parameter"
\* "调用 agentFlow 接口失败: "
AgentFlowCallFailedMsg == "agentFlow call failed"
\* requests.HTTPError raised by raise_for_status()
HTTPErrorMsg == "HTTPError"
\* requests.ConnectionError / Timeout raised by the HTTP call
TransportErrorMsg == "ConnectionError"

\* uuid.uuid4().hex, first and second draw of a request.
NewConversationId == "uuid-1"
NewMessageId == "uuid-2"
\* A conversation id the caller supplies.
SuppliedId == "c1"
NoId == ""

----------------------------------------------------------------------------
\* Text helpers.

\* substring test for a sentinel: sentinel in text
Contains(text, tok) == \E i \in 1..Len(text) : text[i] = tok

\* text.replace(tok, "")
Remove(text, tok) == SelectSeq(text, LAMBDA t : t # tok)

RECURSIVE SplitFrom(_, _, _)
SplitFrom(text, i, cur) ==
    IF i > Len(text) THEN <<cur>>
    ELSE IF text[i] = PIPE THEN <<cur>> \o SplitFrom(text, i + 1, <<>>)
    ELSE SplitFrom(text, i + 1, Append(cur, text[i]))

\* text.split("|")
Split(text) == SplitFrom(text, 1, <<>>)

\* texts after each iteration of: for char in text: texts += char
Prefixes(text) == [i \in 1..Len(text) |-> SubSeq(text, 1, i)]

----------------------------------------------------------------------------
\* Events sent to the caller: the keys of the JSON object of one chunk.
\* type "" / event "" / an id NoId stand for an absent key; hasContent tells an
\* absent content key from an empty one.

BlankEvent ==
    [type |-> "", event |-> "", agent |-> "", hasContent |-> FALSE,
     content |-> <<>>, loadingText |-> <<>>, thought |-> <<>>, data |-> <<>>,
     context |-> <<>>, metadata |-> <<>>, error |-> <<>>, finished |-> FALSE,
     conversation_id |-> NoId, message_id |-> NoId]

----------------------------------------------------------------------------
VARIABLES
    pc,                     \* "idle", "streaming" (a StreamingResponse was returned), "failed"
    req,                    \* the request chat_streaming received
    handler,                \* the handler chat_streaming called
    conversation_id,        \* the handler's conversation_id
    message_id,             \* the handler's message_id
    tasks,                  \* asyncio.create_task calls, in order
    upstreamCalls,          \* HTTP calls issued to the upstream engine
    closeCalls,             \* close() calls on the adapter's session/connection
    releaseCalls,           \* response.release() calls
    respStatus,             \* resp.status_code as set by chat_streaming (0: not set)
    errorMessage,           \* message of the exception chat_streaming raised
    headers,                \* the headers dict handed to StreamingResponse
    background,             \* background_tasks.add_task calls, in order
    saved,                  \* what each run of save_messages_async read: the two lists
    gen,                    \* the translator the response iterates
    gpc,                    \* "notstarted", "running", "finished", "raised", "cancelled"
    events,                 \* the chunks the translator yielded
    answers,                \* the answers list shared with save_messages_async
    thought,                \* the thought list shared with save_messages_async
    current_event_type,     \* agentflow_stream_generator's local
    is_coordinator_thought, \* multi_agent_stream_generator's local
    folded_thinking_process,\* dify_stream_generator's parameter, reassigned
    linesRead,              \* the upstream lines the translator has read, in order
    failure,                \* the exception met in the loop: "none", "read" (reading
                            \* the upstream body raised), "process" (handling a line raised)
    lastStep,               \* the translator's last step: "none", "start", "line",
                            \* "eof", "readfail", "cancel"
    nPrev,                  \* Len(events) before the translator's last step
    aPrev,                  \* Len(answers) before the translator's last step
    hpc,                    \* health_check: the check it is about to run
    settings,               \* health_check: the *_enabled settings it reads
    overall_status,         \* health_check's local
    services_status,        \* health_check's local: service -> status
    critical_services_down, \* health_check's local
    epc,                    \* event_generator: "idle", "running", "finished"
    apc,                    \* agent.stream: the block it is in
    thread_id,              \* stream_agent's thread_id
    sse                     \* the SSE events event_generator yielded, in order

\* The state of a chat_streaming request and its translator.
streamVars == <<pc, req, handler, conversation_id, message_id, tasks, upstreamCalls,
                closeCalls, releaseCalls, respStatus, errorMessage, headers, background,
                saved, gen, gpc, events, answers, thought, current_event_type,
                is_coordinator_thought, folded_thinking_process, linesRead, failure,
                lastStep, nPrev, aPrev>>

\* The state of a health_check request.
healthVars == <<hpc, settings, overall_status, services_status, critical_services_down>>

\* The state of a stream_agent request.
agentVars == <<epc, apc, thread_id, sse>>

\* The state of the three HTTP endpoints.
webVars == <<streamVars, healthVars, agentVars>>

\* ServiceContainer (app/core/container.py)
VARIABLES
    factories,              \* _factories: the registrations, in insertion order
    services,               \* _services: name -> cached instance
    initialized_services,   \* _initialized_services
    initialization_status,  \* _initialization_status
    lock,                   \* _lock: the caller that holds it (0: free)
    initializer,            \* per caller of initialize_all: where it is
    shutdown,               \* the call of shutdown_all: where it is
    instCount,              \* name -> instances its factories have returned so far
    opCount,                \* calls of the container's methods so far
    asked,                  \* whether get or initialize_all has been called so far
    lastGet,                \* the last get: its arguments, what it met, its result
    okCalls,                \* name -> factory calls that returned an instance since
                            \* the name was registered or the container was cleared
    factoryCalled,          \* whether a factory has been called so far
    initLog,                \* initialize() calls since the container was cleared
    passLog,                \* the names the current pass of initialize_all has handled
    shutLog,                \* shutdown() calls of the current or last shutdown_all
    cstep                   \* the last step of the container

containerVars == <<factories, services, initialized_services, initialization_status,
                   lock, initializer, shutdown, instCount, opCount, asked, lastGet, okCalls,
                   factoryCalled, initLog, passLog, shutLog, cstep>>

\* The chat history of one thread (app/core/chat_history.py)
VARIABLES
    hkind,                  \* the manager in use: "redis" or "memory"
    cache,                  \* the list cached for the thread: Redis or _storage
    db,                     \* the records of the thread in MySQL
    reader,                 \* per caller of get_messages: where it is
    historyCalls            \* calls of get_messages and add_message so far

historyVars == <<hkind, cache, db, reader, historyCalls>>

\* get_chat_history_manager (app/core/chat_history.py)
VARIABLES
    chat_history_manager,   \* _chat_history_manager: the global
    managersMade,           \* managers constructed so far
    pinged,                 \* the managers whose ping has succeeded
    mcaller,                \* per caller of get_chat_history_manager: where it is
    managerCalls            \* calls of get_chat_history_manager so far

managerVars == <<chat_history_manager, managersMade, pinged, mcaller, managerCalls>>

\* ApiKeyService (app/core/services/apikey_service.py)
VARIABLES
    api_key,                \* _api_key
    fetch_time,             \* _fetch_time
    lock_sync,              \* _lock_sync: the thread that holds it (0: free)
    now,                    \* time.time()
    keysIssued,             \* keys the remote service has handed out so far
    kcaller                 \* per thread calling get_api_key_sync: where it is

apikeyVars == <<api_key, fetch_time, lock_sync, now, keysIssued, kcaller>>

\* The state of the core services.
coreVars == <<containerVars, historyVars, managerVars, apikeyVars>>

notContainer == <<webVars, historyVars, managerVars, apikeyVars>>
notHistory == <<webVars, containerVars, managerVars, apikeyVars>>
notManager == <<webVars, containerVars, historyVars, apikeyVars>>
notApiKey == <<webVars, containerVars, historyVars, managerVars>>

vars == <<webVars, coreVars>>

\* What only chat_streaming writes.
reqVars == <<pc, req, handler, conversation_id, message_id, tasks, upstreamCalls,
             respStatus, errorMessage, headers, background, gen>>

\* What no step of a translator writes.
restVars == <<saved, healthVars, agentVars, coreVars>>

NoEventType == "None"

----------------------------------------------------------------------------
\* Idle values of health_check's locals.

NoSettings ==
    [mysql_enabled |-> FALSE, mongodb_enabled |-> FALSE, apikey_service_enabled |-> FALSE]
NoServices == [k \in {} |-> ""]

----------------------------------------------------------------------------
\* Requests.

Sources == {"OpsMind", "BitMind", "dify", "agentflow", "other", ""}
Scenes == {[present |-> FALSE, source |-> ""]}
            \cup {[present |-> TRUE, source |-> s] : s \in Sources}
UpstreamOutcomes == {"ok", "http503", "transport"}

\* A headers dict: header name -> value.  Keys are case-sensitive, as in a dict.
NoHeaders == [k \in {} |-> ""]

\* k.lower() for the header names of the model.
Lower(k) ==
    CASE k = "Cache-Control" -> "cache-control"
      [] k = "Connection" -> "connection"
      [] k = "X-Accel-Buffering" -> "x-accel-buffering"
      [] k = "Content-Encoding" -> "content-encoding"
      [] k = "Content-Length" -> "content-length"
      [] k = "Content-Type" -> "content-type"
      [] OTHER -> k

\* The headers each handler sets before it copies the upstream's.
ForcedHeaders ==
    ("Cache-Control" :> "no-cache") @@ ("Connection" :> "keep-alive")
    @@ ("X-Accel-Buffering" :> "no") @@ ("Content-Encoding" :> "identity")

\* for k, v in response.headers.items():
\*     if k.lower() not in ("content-length", "content-encoding"): headers[k] = v
CopyUpstream(h, up) ==
    LET copied == {k \in DOMAIN up : Lower(k) \notin {"content-length", "content-encoding"}}
    IN  [k \in DOMAIN h \cup copied |-> IF k \in copied THEN up[k] ELSE h[k]]

\* The headers of an upstream response that names none of the handler's four.
PlainUpstreamHeaders == "Content-Type" :> "text/event-stream"

\* Headers an upstream response can carry.
UpstreamHeaderSets ==
    {NoHeaders,
     PlainUpstreamHeaders,
     PlainUpstreamHeaders @@ ("X-Trace" :> "t1"),
     PlainUpstreamHeaders @@ ("Content-Length" :> "42"),
     PlainUpstreamHeaders @@ ("Content-Encoding" :> "gzip"),
     PlainUpstreamHeaders @@ ("content-encoding" :> "gzip") @@ ("content-length" :> "42"),
     PlainUpstreamHeaders @@ ("Cache-Control" :> "max-age=60"),
     PlainUpstreamHeaders @@ ("cache-control" :> "public"),
     PlainUpstreamHeaders @@ ("Connection" :> "close"),
     PlainUpstreamHeaders @@ ("X-Accel-Buffering" :> "yes")}

NoRequest ==
    [scene |-> [present |-> FALSE, source |-> ""], cid |-> NoId, upstream |-> "ok",
     apikey |-> FALSE, folded |-> FALSE, uphdr |-> NoHeaders]

\* The chain without its agentflow arm, as in the earlier version of the route.
DispatchNoAgentflow(scene) ==
    IF ~scene.present THEN "handle_uyun"
    ELSE IF scene.source = "OpsMind" \/ scene.source = "BitMind" THEN "handle_uyun"
    ELSE IF scene.source = "dify" THEN "handle_dify"
    ELSE "raise"

\* The if/elif chain of chat_streaming.
Dispatch(scene) ==
    IF ~scene.present THEN "handle_uyun"
    ELSE IF scene.source = "OpsMind" \/ scene.source = "BitMind" THEN "handle_uyun"
    ELSE IF scene.source = "dify" THEN "handle_dify"
    ELSE IF scene.source = "agentflow" THEN "handle_agent_flow"
    ELSE "raise"

\* What a handler leaves behind: the id it uses, the tasks it created, the
\* upstream calls and close() calls it made, the exception it raised (<<>>: none),
\* the translator it handed to StreamingResponse ("": none), the response headers
\* it built from the upstream's and the background tasks it added.
Outcome(cid, ts, calls, closes, raised, g, up) ==
    [conversation_id |-> cid, tasks |-> ts, upstreamCalls |-> calls,
     closeCalls |-> closes, raised |-> raised, gen |-> g,
     message_id |-> IF raised = <<>> THEN NewMessageId ELSE NoId,
     headers |-> IF raised = <<>> THEN CopyUpstream(ForcedHeaders, up) ELSE NoHeaders,
     background |-> IF raised = <<>> THEN <<"save_messages_async">> ELSE <<>>]

\* if not conversation_id: ... create_task(save_conversation_async),
\* create_task(gen_summary_async)   (handle_agent_flow, handle_dify)
NewSessionTasks(cid) ==
    IF cid = NoId THEN <<"save_conversation_async", "gen_summary_async">> ELSE <<>>

\* The same two statements in handle_uyun, where they are outside the if.
UyunSessionTasks(cid) == <<"save_conversation_async", "gen_summary_async">>

EnsureId(cid) == IF cid = NoId THEN NewConversationId ELSE cid

\* session.close() calls of handle_agent_flow's try/except.
AgentFlowCloses(up) ==
    IF up = "http503" THEN 2       \* close() before the raise, close() in except
    ELSE IF up = "transport" THEN 1
    ELSE 0

HandleAgentFlow(r) ==
    LET cid == EnsureId(r.cid)
        ts == NewSessionTasks(r.cid)
    IN  IF ~r.apikey
        THEN Outcome(cid, ts, 0, 0, <<AgentNameRequiredMsg>>, "", r.uphdr)
        ELSE IF r.upstream # "ok"
        THEN Outcome(cid, ts, 1, AgentFlowCloses(r.upstream),
                     <<AgentFlowCallFailedMsg>>, "", r.uphdr)
        ELSE Outcome(cid, ts, 1, 0, <<>>, "agentflow", r.uphdr)

HandleDify(r) ==
    LET cid == EnsureId(r.cid)
        ts == NewSessionTasks(r.cid)
    IN  IF r.upstream = "transport"
        THEN Outcome(cid, ts, 1, 0, <<TransportErrorMsg>>, "", r.uphdr)
        ELSE IF r.upstream = "http503"
        THEN Outcome(cid, ts, 1, 0, <<HTTPErrorMsg>>, "", r.uphdr)
        ELSE Outcome(cid, ts, 1, 0, <<>>, "dify", r.uphdr)

\* engingService: the visit-count task, then the POST and raise_for_status.
HandleUyun(r) ==
    LET cid == EnsureId(r.cid)
        ts == UyunSessionTasks(r.cid)
                \o (IF r.scene.present THEN <<"update_visit_count_async">> ELSE <<>>)
    IN  IF r.upstream = "transport"
        THEN Outcome(cid, ts, 1, 0, <<TransportErrorMsg>>, "", r.uphdr)
        ELSE IF r.upstream = "http503"
        THEN Outcome(cid, ts, 1, 0, <<HTTPErrorMsg>>, "", r.uphdr)
        ELSE Outcome(cid, ts, 1, 0, <<>>, "multi", r.uphdr)

RaiseNoPlatform(r) == Outcome(NoId, <<>>, 0, 0, <<NoPlatformSourceMsg>>, "", r.uphdr)

\* A request and what the upstream does with the call made for it: the outcome
\* of the call and the headers of the upstream response.
RequestsWith(hs) ==
    {[scene |-> sc, cid |-> c, upstream |-> up, apikey |-> k, folded |-> f,
      uphdr |-> h] :
        sc \in Scenes, c \in {NoId, SuppliedId}, up \in UpstreamOutcomes,
        k \in BOOLEAN, f \in BOOLEAN, h \in hs}

\* The requests whose upstream response carries the plain headers.
Requests == RequestsWith({PlainUpstreamHeaders})

\* The requests with every upstream header set.
HeaderRequests == RequestsWith(UpstreamHeaderSets)

\* Requests that differ only in a field their handler never reads are one request.
Relevant(r) ==
    /\ (r.apikey = FALSE => Dispatch(r.scene) = "handle_agent_flow")
    /\ (r.folded = TRUE => Dispatch(r.scene) = "handle_dify")
    /\ (Dispatch(r.scene) = "raise" => r.upstream = "ok")
    /\ (r.uphdr # PlainUpstreamHeaders =>
            /\ Dispatch(r.scene) # "raise"
            /\ r.upstream = "ok"
            /\ (Dispatch(r.scene) = "handle_agent_flow" => r.apikey))

----------------------------------------------------------------------------
\* ServiceContainer: its values and its state after construction.

MaxCalls == 5

ServiceNames == {"a", "b"}
Callers == {1, 2}

\* None, and a default the caller of get passes
NoInstance == [id |-> 0, factory |-> "none"]
DefaultInstance == [id |-> 0, factory |-> "default"]
Defaults == {NoInstance, DefaultInstance}

NoCached == [n \in {} |-> NoInstance]
NoCalls == [n \in ServiceNames |-> 0]
NoGet == [name |-> "", default |-> NoInstance, wasRegistered |-> FALSE,
          wasCached |-> FALSE, singleton |-> FALSE, called |-> FALSE,
          raised |-> FALSE, result |-> NoInstance]
IdleInitializer == [pc |-> "idle", i |-> 0, name |-> "", inst |-> NoInstance,
                    raises |-> FALSE]
IdleShutdown == [pc |-> "idle", order |-> <<>>, name |-> "", inst |-> NoInstance]
NoPass == [state |-> "none", attempted |-> {}]

\* ServiceContainer.__init__
ContainerInit ==
    /\ factories = <<>>
    /\ services = NoCached
    /\ initialized_services = {}
    /\ initialization_status = FALSE
    /\ lock = 0
    /\ initializer = [c \in Callers |-> IdleInitializer]
    /\ shutdown = IdleShutdown
    /\ instCount = NoCalls
    /\ opCount = 0
    /\ asked = FALSE
    /\ lastGet = NoGet
    /\ okCalls = NoCalls
    /\ factoryCalled = FALSE
    /\ initLog = <<>>
    /\ passLog = NoPass
    /\ shutLog = <<>>
    /\ cstep = "none"

----------------------------------------------------------------------------
\* The chat history managers: their values and their state before the first call.

MaxHistoryCalls == 3

Readers == {1, 2}

\* limit: None (0) or a number of messages
Limits == {0, 2}

\* What MySQL holds for the thread when the history is first used.
DbRecords == <<[role |-> "user", content |-> "d1"],
               [role |-> "assistant", content |-> "d2"]>>

\* The messages the agents add, each of them once.
AddedMessages == <<[cls |-> "HumanMessage", content |-> "m1"]>>

IdleReader == [pc |-> "idle", limit |-> 0, messages |-> <<>>, k |-> 0,
               cacheAtRead |-> <<>>, readOk |-> TRUE, loaded |-> FALSE,
               restoreFailed |-> FALSE, result |-> <<>>]

HistoryInit ==
    /\ hkind = "none"
    /\ cache = <<>>
    /\ db = <<>>
    /\ reader = [r \in Readers |-> IdleReader]
    /\ historyCalls = 0

----------------------------------------------------------------------------
\* get_chat_history_manager: its values and the state when the module is loaded.

MaxManagerCalls == 4

ManagerCallers == {1, 2, 3}

\* None
NoManager == [kind |-> "none", id |-> 0]

IdleCaller == [pc |-> "idle", got |-> NoManager, tested |-> FALSE]

ManagerInit ==
    /\ chat_history_manager = NoManager
    /\ managersMade = 0
    /\ pinged = {}
    /\ mcaller = [c \in ManagerCallers |-> IdleCaller]
    /\ managerCalls = 0

----------------------------------------------------------------------------
\* ApiKeyService: its settings, its values and its state after construction.

MaxTime == 3
MaxKeys == 2

Threads == {1, 2}

\* settings.apikey_expire_seconds and settings.apikey_refresh_before_seconds, set
\* to a few ticks of the model's clock
apikey_expire_seconds == 3
apikey_refresh_before_seconds == 1

\* max_retries
max_retries == 3

\* None, settings.llm_api_key, and the keys the remote service hands out
NoKey == "None"
llm_api_key == "llm_api_key"
RemoteKey(n) == IF n = 1 THEN "key1" ELSE IF n = 2 THEN "key2" ELSE "key3"

IdleThread == [pc |-> "idle", current_time |-> 0, attempt |-> 0, keyBefore |-> NoKey,
               timeBefore |-> 0, fetched |-> FALSE, ok |-> FALSE, result |-> NoKey,
               keyAfter |-> NoKey, timeAfter |-> 0]

\* ApiKeyService.__init__
ApiKeyInit ==
    /\ api_key = NoKey
    /\ fetch_time = 0
    /\ lock_sync = 0
    /\ now = 0
    /\ keysIssued = 0
    /\ kcaller = [t \in Threads |-> IdleThread]

Init ==
    /\ pc = "idle"
    /\ req = NoRequest
    /\ handler = "none"
    /\ conversation_id = NoId
    /\ message_id = NoId
    /\ tasks = <<>>
    /\ upstreamCalls = 0
    /\ closeCalls = 0
    /\ releaseCalls = 0
    /\ respStatus = 0
    /\ errorMessage = <<>>
    /\ headers = NoHeaders
    /\ background = <<>>
    /\ saved = <<>>
    /\ gen = ""
    /\ gpc = "notstarted"
    /\ events = <<>>
    /\ answers = <<>>
    /\ thought = <<>>
    /\ current_event_type = NoEventType
    /\ is_coordinator_thought = FALSE
    /\ folded_thinking_process = FALSE
    /\ linesRead = <<>>
    /\ failure = "none"
    /\ lastStep = "none"
    /\ nPrev = 0
    /\ aPrev = 0
    /\ hpc = "idle"
    /\ settings = NoSettings
    /\ overall_status = "healthy"
    /\ services_status = NoServices
    /\ critical_services_down = <<>>
    /\ epc = "idle"
    /\ apc = "none"
    /\ thread_id = NoId
    /\ sse = <<>>
    /\ ContainerInit
    /\ HistoryInit
    /\ ManagerInit
    /\ ApiKeyInit

\* chat_streaming for a request of rs: dispatch on context.scene, run the
\* handler, wrap what the handlers under the try raise.
Route(rs) ==
    /\ pc = "idle"
    /\ \E r \in rs :
        /\ Relevant(r)
        /\ LET h == Dispatch(r.scene)
               o == CASE h = "handle_uyun" -> HandleUyun(r)
                      [] h = "handle_dify" -> HandleDify(r)
                      [] h = "handle_agent_flow" -> HandleAgentFlow(r)
                      [] OTHER -> RaiseNoPlatform(r)
               inTry == r.scene.present
           IN  /\ req' = r
               /\ handler' = (IF h = "raise" THEN "none" ELSE h)
               /\ conversation_id' = o.conversation_id
               /\ message_id' = o.message_id
               /\ tasks' = o.tasks
               /\ upstreamCalls' = o.upstreamCalls
               /\ closeCalls' = o.closeCalls
               /\ headers' = o.headers
               /\ background' = o.background
               /\ gen' = o.gen
               /\ pc' = (IF o.raised = <<>> THEN "streaming" ELSE "failed")
               /\ respStatus' = (IF o.raised # <<>> /\ inTry THEN 500 ELSE 0)
               /\ errorMessage' = (IF o.raised # <<>> /\ inTry
                                   THEN <<"APIError: ">> \o o.raised
                                   ELSE o.raised)
               /\ folded_thinking_process' = (o.gen = "dify" /\ r.folded)
    /\ UNCHANGED <<releaseCalls, gpc, events, answers, thought, current_event_type,
                   is_coordinator_thought, linesRead, failure, lastStep, nPrev, aPrev,
                   restVars>>

ChatStreaming == Route(Requests)

\* chat_streaming, for every set of headers the upstream response can carry.
ChatStreamingUpstreamHeaders == Route(HeaderRequests)

----------------------------------------------------------------------------
\* agentflow_stream_generator

\* One upstream line after decode and strip.
\*   k = "blank":  empty line or ":" comment
\*   k = "other":  a line that starts with neither "event:" nor "data:"
\*   k = "event":  "event: <type>"
\*   k = "data":   "data: <payload>", form = "empty" (nothing after the prefix),
\*                 "dict" (a JSON object with keys text and error, <<>>: absent),
\*                 "scalar" (JSON that is no object, text = str(value)),
\*                 "raw" (not JSON, text = the payload)
AfLine(k, type, form, text, error) ==
    [k |-> k, type |-> type, form |-> form, text |-> text, error |-> error]

AfEventTypes == {"message", "data", "metadata", "done", "error", "ping"}

AfLines ==
    {AfLine("blank", "", "", <<>>, <<>>), AfLine("other", "", "", <<>>, <<>>)}
    \cup {AfLine("event", t, "", <<>>, <<>>) : t \in AfEventTypes}
    \cup {AfLine("data", "", "empty", <<>>, <<>>),
          AfLine("data", "", "dict", <<"A">>, <<>>),
          AfLine("data", "", "dict", <<"B">>, <<>>),
          AfLine("data", "", "dict", <<>>, <<"E">>),
          AfLine("data", "", "scalar", <<"5">>, <<>>),
          AfLine("data", "", "raw", <<"R">>, <<>>)}

\* try: json.loads(data_str)  except JSONDecodeError: {"text": data_str}
AfParse(line) ==
    IF line.form = "raw"
    THEN [isdict |-> TRUE, text |-> line.text, error |-> <<>>, str |-> <<>>]
    ELSE IF line.form = "dict"
    THEN [isdict |-> TRUE, text |-> line.text, error |-> line.error, str |-> <<>>]
    ELSE [isdict |-> FALSE, text |-> <<>>, error |-> <<>>, str |-> line.text]

\* json.dumps(data_json, ensure_ascii=False)
JsonDumps(dj) ==
    IF dj.isdict
    THEN <<"{">> \o (IF dj.text # <<>> THEN <<"text:">> \o dj.text ELSE <<>>)
               \o (IF dj.error # <<>> THEN <<"error:">> \o dj.error ELSE <<>>)
               \o <<"}">>
    ELSE dj.str

AfEvent(type, cid, mid) ==
    [BlankEvent EXCEPT !.type = type, !.agent = "agentflow",
                       !.conversation_id = cid, !.message_id = mid]

\* The except branch of the generator.
AfExceptionEvent(what, cid, mid) ==
    [AfEvent("error", cid, mid) EXCEPT !.error = <<StreamErrorPrefix, what>>,
                                       !.finished = TRUE]

\* A message branch that yields without recording the text.
AfMessageNotSaved(text_content) == <<>>

\* What the message branch appends to answers.
AfMessageSaved(text_content) == <<text_content>>

\* What the data branch appends to answers.
AfDataSaved(dj) == <<JsonDumps(dj)>>

\* One iteration of the loop: the chunks yielded, the entries appended to
\* answers, the new current_event_type, and whether the loop is left.
AfStep(cet, line, cid, mid) ==
    LET dj == AfParse(line)
        same == [out |-> <<>>, app |-> <<>>, cet |-> cet, stop |-> FALSE, exc |-> FALSE]
        reset == [same EXCEPT !.cet = NoEventType]
    IN  IF line.k = "event" THEN [same EXCEPT !.cet = line.type]
        ELSE IF line.k # "data" \/ line.form = "empty" THEN same
        ELSE IF cet = "message" THEN
            LET text_content == IF dj.isdict THEN dj.text ELSE dj.str
            IN  IF text_content # <<>>
                THEN [reset EXCEPT
                        !.out = <<[AfEvent("message", cid, mid) EXCEPT
                                     !.hasContent = TRUE, !.content = text_content]>>,
                        !.app = AfMessageSaved(text_content)]
                ELSE reset
        ELSE IF cet = "data" THEN
            [reset EXCEPT
                !.out = <<[AfEvent("data", cid, mid) EXCEPT !.data = JsonDumps(dj)]>>,
                !.app = AfDataSaved(dj)]
        ELSE IF cet = "metadata" THEN
            [reset EXCEPT
                !.out = <<[AfEvent("metadata", cid, mid) EXCEPT !.context = JsonDumps(dj)]>>]
        ELSE IF cet = "done" THEN
            IF dj.isdict
            THEN [same EXCEPT
                    !.out = <<[AfEvent("done", cid, mid) EXCEPT !.finished = TRUE]>>,
                    !.stop = TRUE]
            ELSE \* data_json.get on a value that is no dict: AttributeError
                 [same EXCEPT !.out = <<AfExceptionEvent("AttributeError", cid, mid)>>,
                              !.stop = TRUE, !.exc = TRUE]
        ELSE IF cet = "error" THEN
            LET error_msg == IF dj.isdict
                             THEN (IF dj.error # <<>> THEN dj.error ELSE UnknownError)
                             ELSE dj.str
            IN  [same EXCEPT
                    !.out = <<[AfEvent("error", cid, mid) EXCEPT
                                 !.error = error_msg, !.finished = TRUE]>>,
                    !.stop = TRUE]
        ELSE reset

\* The finally block of a translator: close() and release() calls on the upstream
\* session/response, and what handle_multi appends to thought for {"thought": "\n"}.
\* dify_stream_generator has no finally block.
Finally(g) ==
    IF g = "agentflow" THEN [closes |-> 1, releases |-> 1, thoughtApp |-> <<>>]
    ELSE IF g = "multi" THEN [closes |-> 0, releases |-> 0, thoughtApp |-> <<<<NL1>>>>]
    ELSE [closes |-> 0, releases |-> 0, thoughtApp |-> <<>>]

AgentflowLineRead ==
    /\ pc = "streaming" /\ gen = "agentflow" /\ gpc = "running"
    /\ Len(linesRead) < MaxLines
    /\ \E line \in AfLines :
        LET s == AfStep(current_event_type, line, conversation_id, message_id)
        IN  /\ linesRead' = Append(linesRead, line)
            /\ events' = events \o s.out
            /\ answers' = answers \o s.app
            /\ current_event_type' = s.cet
            /\ gpc' = (IF s.stop THEN "finished" ELSE "running")
            /\ failure' = (IF s.exc THEN "process" ELSE failure)
            /\ releaseCalls' = releaseCalls + (IF s.stop THEN Finally(gen).releases ELSE 0)
            /\ closeCalls' = closeCalls + (IF s.stop THEN Finally(gen).closes ELSE 0)
    /\ nPrev' = Len(events)
    /\ aPrev' = Len(answers)
    /\ lastStep' = "line"
    /\ UNCHANGED <<reqVars, restVars, thought, is_coordinator_thought, folded_thinking_process>>

----------------------------------------------------------------------------
\* dify_stream_generator

\* One upstream line.
\*   k = "blank":   empty line or ":" comment
\*   k = "ping":    "data: ping"
\*   k = "nonjson": json.loads raises JSONDecodeError
\*   k = "nondict": JSON that is no object
\*   k = "json":    a JSON object with keys event, answer (hasAnswer) and
\*                  metadata (<<>>: absent)
DifyLine(k, event, hasAnswer, answer, metadata) ==
    [k |-> k, event |-> event, hasAnswer |-> hasAnswer, answer |-> answer,
     metadata |-> metadata]

DifyLines ==
    {DifyLine("blank", "", FALSE, <<>>, <<>>),
     DifyLine("ping", "", FALSE, <<>>, <<>>),
     DifyLine("nonjson", "", FALSE, <<>>, <<>>),
     DifyLine("nondict", "", FALSE, <<>>, <<>>),
     DifyLine("json", "message", TRUE, <<"A">>, <<>>),
     DifyLine("json", "message", TRUE, <<"B">>, <<"K">>),
     DifyLine("json", "message", TRUE, <<>>, <<>>),
     DifyLine("json", "message", FALSE, <<>>, <<>>),
     DifyLine("json", "message", TRUE, <<LOADING, PIPE, "s", PIPE, "A", "B">>, <<>>),
     DifyLine("json", "message", TRUE, <<LOADING, PIPE, "s", PIPE>>, <<>>),
     DifyLine("json", "message", TRUE, <<LOADING, PIPE, "s">>, <<>>),
     DifyLine("json", "message_end", TRUE, <<>>, <<"K">>),
     DifyLine("json", "message_end", FALSE, <<>>, <<"K">>),
     DifyLine("json", "workflow_started", FALSE, <<>>, <<>>)}

\* json.dumps(payload.get("metadata"), ensure_ascii=False)
MetadataDumps(m) == <<"{">> \o m \o <<"}">>

\* coordinator_feedback, the dict both generators yield first
CoordinatorFeedback(cid, mid) ==
    [BlankEvent EXCEPT !.type = "loading", !.agent = "coordinator", !.hasContent = TRUE,
                       !.loadingText = <<StepOneTopic>>,
                       !.conversation_id = cid, !.message_id = mid]

\* The loop over answer_result[2]: one chunk per character.
DifyLoadingEvents(answer_result, cid, mid) ==
    LET texts == Prefixes(answer_result[3])
    IN  [i \in 1..Len(texts) |->
            [CoordinatorFeedback(cid, mid) EXCEPT
                !.loadingText = answer_result[2] \o <<NL2>> \o texts[i]]]

\* What the else branch appends to answers: the answer, then the metadata.
DifySaved(p) ==
    (IF p.answer # <<>> THEN <<p.answer>> ELSE <<>>)
    \o (IF p.metadata # <<>> THEN <<MetadataDumps(p.metadata)>> ELSE <<>>)

\* The payload as yielded.
DifyPayloadEvent(p, folded, cid, mid) ==
    [BlankEvent EXCEPT !.event = p.event, !.hasContent = TRUE,
                       !.content = IF folded THEN <<FoldPrefix>> \o p.answer ELSE p.answer,
                       !.metadata = p.metadata,
                       !.conversation_id = cid, !.message_id = mid]

\* One iteration of the loop: the chunks yielded, the entries appended to
\* answers, the new folded_thinking_process, and the exception that leaves the
\* generator ("": none).
DifyStep(folded, p, cid, mid) ==
    LET same == [out |-> <<>>, app |-> <<>>, folded |-> folded, raised |-> ""]
    IN  IF p.k \in {"blank", "ping", "nonjson"} THEN same
        ELSE IF p.k = "nondict" THEN [same EXCEPT !.raised = "AttributeError"]
        \* "loading..." in payload.get("answer") with no answer key
        ELSE IF p.event = "message" /\ ~p.hasAnswer THEN [same EXCEPT !.raised = "TypeError"]
        ELSE IF p.event = "message" /\ Contains(p.answer, LOADING) THEN
            LET answer_result == Split(p.answer)
            IN  IF Len(answer_result) < 3
                THEN [same EXCEPT !.raised = "IndexError"]
                \* the second if finds "loading..." again and only prints
                ELSE [same EXCEPT !.out = DifyLoadingEvents(answer_result, cid, mid)]
        ELSE IF p.event = "message" \/ p.event = "message_end" THEN
            IF ~p.hasAnswer THEN same          \* TypeError inside the try: ignored
            ELSE IF Contains(p.answer, LOADING) THEN same
            ELSE [same EXCEPT !.out = <<DifyPayloadEvent(p, folded, cid, mid)>>,
                              !.app = DifySaved(p),
                              !.folded = FALSE]
        ELSE same

DifyLineRead ==
    /\ pc = "streaming" /\ gen = "dify" /\ gpc = "running"
    /\ Len(linesRead) < MaxLines
    /\ \E line \in DifyLines :
        LET s == DifyStep(folded_thinking_process, line, conversation_id, message_id)
        IN  /\ linesRead' = Append(linesRead, line)
            /\ events' = events \o s.out
            /\ answers' = answers \o s.app
            /\ folded_thinking_process' = s.folded
            /\ gpc' = (IF s.raised # "" THEN "raised" ELSE "running")
            /\ failure' = (IF s.raised # "" THEN "process" ELSE failure)
    /\ nPrev' = Len(events)
    /\ aPrev' = Len(answers)
    /\ lastStep' = "line"
    /\ UNCHANGED <<reqVars, restVars, closeCalls, releaseCalls, thought, current_event_type,
                   is_coordinator_thought>>

----------------------------------------------------------------------------
\* multi_agent_stream_generator

\* One upstream line.
\*   k = "nodata":    a line without the substring "data"
\*   k = "malformed": json.loads raises
\*   k = "json":      a JSON object with keys agent, finish_reason ("": null)
\*                    and content (hasContent)
MultiLine(k, agent, finish_reason, hasContent, content) ==
    [k |-> k, agent |-> agent, finish_reason |-> finish_reason,
     hasContent |-> hasContent, content |-> content]

MultiLines ==
    {MultiLine("nodata", "", "", FALSE, <<>>),
     MultiLine("malformed", "", "", FALSE, <<>>),
     MultiLine("json", "coordinator", "stop", FALSE, <<>>),
     MultiLine("json", "coordinator", "", TRUE, <<LOADING, PIPE, "s", "t", PIPE, "A", "B">>),
     MultiLine("json", "coordinator", "tool_calls", TRUE, <<LOADING, PIPE, "s">>),
     MultiLine("json", "coordinator", "stop", TRUE, <<LOADING>>),
     MultiLine("json", "coordinator", "", TRUE, <<"C">>),
     MultiLine("json", "coordinator", "", TRUE, <<FLAG, "D">>),
     MultiLine("json", "planner", "", TRUE, <<"A">>),
     MultiLine("json", "planner", "", TRUE, <<FLAG, "B">>),
     MultiLine("json", "planner", "", TRUE, <<FLAG>>),
     MultiLine("json", "planner", "", TRUE, <<THOUGHT, "T", "U">>),
     MultiLine("json", "planner", "", TRUE, <<THOUGHT, "V", FLAG>>),
     MultiLine("json", "coordinator", "stop", TRUE, <<THOUGHT, "W">>)}

\* handle_multi: what it appends to answers for line_json
HandleMultiAnswers(lj) == IF lj.content # <<>> THEN <<lj.content>> ELSE <<>>

\* handle_multi: the ids it writes into line_json
HandleMultiIds(lj, cid, mid) ==
    [lj EXCEPT !.conversation_id = cid, !.message_id = mid]

\* The coordinator branch: the chunks yielded and line_json afterwards;
\* raised when answer_result[1] does not exist.
MultiCoordinator(lj, cid, mid) ==
    IF Contains(lj.content, LOADING) THEN
        LET answer_result == Split(lj.content)
        IN  IF Len(answer_result) < 2
            THEN [out |-> <<>>, lj |-> lj, raised |-> TRUE]
            ELSE
            LET texts == Prefixes(answer_result[2])
                lj1 == [lj EXCEPT !.content = <<>>, !.type = "loading"]
                chars == [i \in 1..Len(texts) |->
                            [lj1 EXCEPT !.loadingText = IntentPrefix \o texts[i]]]
                lj2 == [HandleMultiIds(lj1, cid, mid) EXCEPT !.loadingText = PlanningText]
            IN  [out |-> chars \o <<lj2>>, lj |-> lj2, raised |-> FALSE]
    ELSE [out |-> <<lj>>, lj |-> lj, raised |-> FALSE]

\* The thought branch: content with "thought" removed goes to the thought list
\* once and to the caller one character per chunk; the content key is deleted.
MultiThought(lj) ==
    LET content == Remove(lj.content, THOUGHT)
        lj1 == [lj EXCEPT !.hasContent = FALSE, !.content = <<>>]
    IN  [out |-> [i \in 1..Len(content) |-> [lj1 EXCEPT !.thought = <<content[i]>>]],
         thoughtApp |-> <<content \o <<NL3>>>>,
         lj |-> lj1]

\* The flag branch: yield first, then handle_multi.
MultiFlag(lj, cid, mid) ==
    LET lj1 == [lj EXCEPT !.content = Remove(lj.content, FLAG)]
    IN  [out |-> <<lj1>>, app |-> HandleMultiAnswers(lj1)]

\* The except branch of the generator: end_msg.
MultiEndMsg == [BlankEvent EXCEPT !.hasContent = TRUE]

\* One iteration of the loop.
MultiStep(ict, line, cid, mid) ==
    LET same == [out |-> <<>>, app |-> <<>>, thoughtApp |-> <<>>, ict |-> ict,
                 raised |-> FALSE]
    IN  IF line.k = "nodata" THEN same
        ELSE IF line.k = "malformed" THEN [same EXCEPT !.raised = TRUE]
        ELSE
        LET lj0 == [BlankEvent EXCEPT !.agent = line.agent,
                                      !.hasContent = line.hasContent,
                                      !.content = line.content]
            ict1 == ict \/ (line.agent = "coordinator"
                            /\ line.finish_reason \in {"tool_calls", "stop"})
            c == IF line.agent = "coordinator" /\ ict1 /\ lj0.hasContent
                 THEN MultiCoordinator(lj0, cid, mid)
                 ELSE [out |-> <<>>, lj |-> lj0, raised |-> FALSE]
        IN  IF c.raised THEN [same EXCEPT !.ict = ict1, !.raised = TRUE]
            ELSE
            LET t == IF c.lj.content # <<>> /\ Contains(c.lj.content, THOUGHT)
                     THEN MultiThought(c.lj)
                     ELSE [out |-> <<>>, thoughtApp |-> <<>>, lj |-> c.lj]
                f == IF t.lj.content # <<>> /\ Contains(t.lj.content, FLAG)
                     THEN MultiFlag(t.lj, cid, mid)
                     ELSE [out |-> <<>>, app |-> <<>>]
            IN  [out |-> c.out \o t.out \o f.out, app |-> f.app,
                 thoughtApp |-> t.thoughtApp, ict |-> ict1, raised |-> FALSE]

MultiLineRead ==
    /\ pc = "streaming" /\ gen = "multi" /\ gpc = "running"
    /\ Len(linesRead) < MaxLines
    /\ \E line \in MultiLines :
        LET s == MultiStep(is_coordinator_thought, line, conversation_id, message_id)
        IN  /\ linesRead' = Append(linesRead, line)
            /\ events' = events \o s.out \o (IF s.raised THEN <<MultiEndMsg>> ELSE <<>>)
            /\ answers' = answers \o s.app
            /\ thought' = thought \o s.thoughtApp
                            \o (IF s.raised THEN Finally(gen).thoughtApp ELSE <<>>)
            /\ is_coordinator_thought' = s.ict
            /\ gpc' = (IF s.raised THEN "finished" ELSE "running")
            /\ failure' = (IF s.raised THEN "process" ELSE failure)
    /\ nPrev' = Len(events)
    /\ aPrev' = Len(answers)
    /\ lastStep' = "line"
    /\ UNCHANGED <<reqVars, restVars, closeCalls, releaseCalls, current_event_type,
                   folded_thinking_process>>

----------------------------------------------------------------------------
\* Steps every translator has.

\* The response starts iterating the generator: the code before the loop.
GenStart ==
    /\ pc = "streaming" /\ gpc = "notstarted"
    /\ gpc' = "running"
    /\ events' = (IF gen \in {"dify", "multi"}
                  THEN <<CoordinatorFeedback(conversation_id, message_id)>>
                  ELSE <<>>)
    /\ nPrev' = 0
    /\ aPrev' = 0
    /\ lastStep' = "start"
    /\ UNCHANGED <<reqVars, restVars, closeCalls, releaseCalls, answers, thought,
                   current_event_type, is_coordinator_thought, folded_thinking_process,
                   linesRead, failure>>

\* The upstream body ends: the loop is exhausted.
UpstreamEnds ==
    /\ pc = "streaming" /\ gpc = "running"
    /\ gpc' = "finished"
    /\ closeCalls' = closeCalls + Finally(gen).closes
    /\ releaseCalls' = releaseCalls + Finally(gen).releases
    /\ thought' = thought \o Finally(gen).thoughtApp
    /\ nPrev' = Len(events)
    /\ aPrev' = Len(answers)
    /\ lastStep' = "eof"
    /\ UNCHANGED <<reqVars, restVars, events, answers, current_event_type, is_coordinator_thought,
                   folded_thinking_process, linesRead, failure>>

\* What a translator yields when reading the upstream raises.
ReadFailureEvents(g, cid, mid) ==
    IF g = "agentflow" THEN <<AfExceptionEvent("ClientError", cid, mid)>>
    ELSE IF g = "multi" THEN <<MultiEndMsg>>
    ELSE <<>>

\* Reading the next line raises (connection drop, timeout).
UpstreamReadFails ==
    /\ pc = "streaming" /\ gpc = "running"
    /\ failure' = "read"
    /\ lastStep' = "readfail"
    /\ events' = events \o ReadFailureEvents(gen, conversation_id, message_id)
    /\ gpc' = (IF gen = "dify" THEN "raised" ELSE "finished")
    /\ closeCalls' = closeCalls + Finally(gen).closes
    /\ releaseCalls' = releaseCalls + Finally(gen).releases
    /\ thought' = thought \o Finally(gen).thoughtApp
    /\ nPrev' = Len(events)
    /\ aPrev' = Len(answers)
    /\ UNCHANGED <<reqVars, restVars, answers, current_event_type, is_coordinator_thought,
                   folded_thinking_process, linesRead>>

\* The consumer closes the generator while it is suspended at a yield or an
\* await: GeneratorExit / CancelledError pass the except Exception clause and
\* run the finally block.
ConsumerCancels ==
    /\ pc = "streaming" /\ gpc = "running"
    /\ gpc' = "cancelled"
    /\ closeCalls' = closeCalls + Finally(gen).closes
    /\ releaseCalls' = releaseCalls + Finally(gen).releases
    /\ thought' = thought \o Finally(gen).thoughtApp
    /\ nPrev' = Len(events)
    /\ aPrev' = Len(answers)
    /\ lastStep' = "cancel"
    /\ UNCHANGED <<reqVars, restVars, events, answers, current_event_type, is_coordinator_thought,
                   folded_thinking_process, linesRead, failure>>

\* The background task of the response: Starlette awaits response.background
\* once the body iterator is exhausted or the client has gone; an exception that
\* leaves the iterator skips it.  save_messages_async reads the two lists.
SaveMessagesAsync ==
    /\ pc = "streaming" /\ gpc \in {"finished", "cancelled"}
    /\ Len(saved) < Len(background)
    /\ saved' = Append(saved, [answers |-> answers, thought |-> thought])
    /\ UNCHANGED <<reqVars, healthVars, agentVars, coreVars, closeCalls, releaseCalls, gpc, events,
                   answers, thought, current_event_type, is_coordinator_thought,
                   folded_thinking_process, linesRead, failure, lastStep, nPrev, aPrev>>

Next ==
    \/ ChatStreaming
    \/ GenStart
    \/ ConsumerCancels
    \/ UpstreamEnds
    \/ UpstreamReadFails
    \/ SaveMessagesAsync
    \/ AgentflowLineRead
    \/ DifyLineRead
    \/ MultiLineRead

Spec == Init /\ [][Next]_vars

\* The handlers alone, over every set of upstream response headers.
NextHeaders == ChatStreamingUpstreamHeaders

SpecHeaders == Init /\ [][NextHeaders]_vars

----------------------------------------------------------------------------
\* health_check (app/api/v1/agent.py)

\* What one check finds.
\*   redis:   "ok" (ping() is true), "false" (ping() is false), "timeout", "error"
\*   llm:     "active" (a service with a current key), "not_initialized" (a service
\*            without one), "missing" (container.get returns None), "error"
\*   mysql:   "ok" (a service with a pool), "not_initialized", "error"
\*   mongodb: "ok", "false", "not_initialized", "timeout", "error"
\*   apikey:  "ok", "not_initialized", "error"
RedisOutcomes == {"ok", "false", "timeout", "error"}
LLMOutcomes == {"active", "not_initialized", "missing", "error"}
MySQLOutcomes == {"ok", "not_initialized", "error"}
MongoDBOutcomes == {"ok", "false", "not_initialized", "timeout", "error"}
ApiKeyOutcomes == {"ok", "not_initialized", "error"}

SettingsSets ==
    [mysql_enabled : BOOLEAN, mongodb_enabled : BOOLEAN, apikey_service_enabled : BOOLEAN]

\* The entry a check writes to services_status: its status and the error or
\* api_key_status next to it.
ServiceEntry(o) ==
    IF o = "ok"
    THEN [status |-> "healthy", detail |-> ""]
    ELSE [status |-> "unhealthy", detail |-> IF o = "false" THEN "" ELSE o]

\* The llm entry: a service without a current key is healthy, not_initialized.
LLMEntry(o) ==
    IF o \in {"active", "not_initialized"}
    THEN [status |-> "healthy", detail |-> o]
    ELSE [status |-> "unhealthy", detail |-> o]

\* A check that lowers the status whatever it was.
DegradeAlways(overall) == "degraded"

\* if overall_status == "healthy": overall_status = "degraded"
Degrade(overall) == IF overall = "healthy" THEN "degraded" ELSE overall

\* The request arrives: the locals are initialised, the settings are read.
HealthCheck ==
    /\ hpc = "idle"
    /\ \E st \in SettingsSets : settings' = st
    /\ overall_status' = "healthy"
    /\ services_status' = NoServices
    /\ critical_services_down' = <<>>
    /\ hpc' = "redis"
    /\ UNCHANGED <<streamVars, agentVars, coreVars>>

\* 1. Redis / ChatHistory
CheckRedis ==
    /\ hpc = "redis"
    /\ \E o \in RedisOutcomes :
        /\ services_status' = services_status @@ ("redis" :> ServiceEntry(o))
        /\ overall_status' = (IF o = "ok" THEN overall_status ELSE "degraded")
    /\ hpc' = "llm"
    /\ UNCHANGED <<settings, critical_services_down, streamVars, agentVars, coreVars>>

\* 2. the LLM service
CheckLLM ==
    /\ hpc = "llm"
    /\ \E o \in LLMOutcomes :
        LET e == LLMEntry(o)
        IN  /\ services_status' = services_status @@ ("llm" :> e)
            /\ critical_services_down' =
                    (IF e.status = "unhealthy" THEN Append(critical_services_down, "llm")
                     ELSE critical_services_down)
            /\ overall_status' =
                    (IF e.status = "unhealthy" THEN "unhealthy" ELSE overall_status)
    /\ hpc' = "mysql"
    /\ UNCHANGED <<settings, streamVars, agentVars, coreVars>>

\* A check of a service that is not critical: skipped when the service is not
\* enabled.
OptionalCheck(enabled, name, outcomes, next) ==
    /\ IF enabled
       THEN \E o \in outcomes :
               LET e == ServiceEntry(o)
               IN  /\ services_status' = services_status @@ (name :> e)
                   /\ overall_status' = (IF e.status = "unhealthy"
                                         THEN Degrade(overall_status)
                                         ELSE overall_status)
       ELSE UNCHANGED <<services_status, overall_status>>
    /\ hpc' = next
    /\ UNCHANGED <<settings, critical_services_down, streamVars, agentVars, coreVars>>

\* 3. MySQL
CheckMySQL ==
    /\ hpc = "mysql"
    /\ OptionalCheck(settings.mysql_enabled, "mysql", MySQLOutcomes, "mongodb")

\* 4. MongoDB
CheckMongoDB ==
    /\ hpc = "mongodb"
    /\ OptionalCheck(settings.mongodb_enabled, "mongodb", MongoDBOutcomes, "apikey")

\* 5. the API key service
CheckApiKeyService ==
    /\ hpc = "apikey"
    /\ OptionalCheck(settings.apikey_service_enabled, "apikey_service", ApiKeyOutcomes,
                     "done")

NextHealth ==
    \/ HealthCheck
    \/ CheckRedis
    \/ CheckLLM
    \/ CheckMySQL
    \/ CheckMongoDB
    \/ CheckApiKeyService

SpecHealth == Init /\ [][NextHealth]_vars

----------------------------------------------------------------------------
\* stream_agent and its event_generator (app/api/v1/agent.py), over
\* RAGAgent.stream (app/agents/rag_agent/agent.py) and the default
\* BaseAgent.stream (app/agents/base.py)

\* yield "event: <type>" and "data: <json>": one SSE event.
SseEvent(type, data) == [event |-> type, data |-> data]

\* The agent a request names: RAGAgent, an agent with the default stream, or a
\* name the registry does not know.
AgentNames == {"rag", "base", "unknown"}
\* The content of a token the model streams.
TokenContents == {"A", "B"}

MessageCount == Cardinality({i \in 1..Len(sse) : sse[i].event = "message"})

\* stream_agent: look the agent up, choose the thread id, return the response.
\* AgentRegistry.get raises ValueError for an unknown name: 404.
StreamAgent ==
    /\ epc = "idle"
    /\ \E name \in AgentNames, tid \in {NoId, SuppliedId} :
        IF name = "unknown"
        THEN /\ epc' = "rejected"
             /\ UNCHANGED <<apc, thread_id>>
        ELSE /\ epc' = "running"
             /\ apc' = (IF name = "rag" THEN "rag.preamble" ELSE "base.invoke")
             /\ thread_id' = EnsureId(tid)
    /\ UNCHANGED <<sse, streamVars, healthVars, coreVars>>

\* The agent raises: event_generator's except clause yields an error event.
AgentRaised == Append(sse, SseEvent("error", "exception"))

\* RAGAgent.stream before its try: _ensure_chat_history, the history load and
\* get_graph, which raise out of the generator.
RagPreamble ==
    /\ epc = "running" /\ apc = "rag.preamble"
    /\ \E ok \in BOOLEAN :
        IF ok
        THEN /\ apc' = "rag.graph"
             /\ UNCHANGED <<epc, sse>>
        ELSE /\ apc' = "raised"
             /\ sse' = AgentRaised
             /\ epc' = "finished"
    /\ UNCHANGED <<thread_id, streamVars, healthVars, coreVars>>

\* on_chat_model_stream with content: a message chunk.
RagToken ==
    /\ epc = "running" /\ apc = "rag.graph"
    /\ MessageCount < MaxTokens
    /\ \E c \in TokenContents : sse' = Append(sse, SseEvent("message", c))
    /\ UNCHANGED <<epc, apc, thread_id, streamVars, healthVars, coreVars>>

\* The graph ends: the references card, when something was retrieved.
RagGraphEnds ==
    /\ epc = "running" /\ apc = "rag.graph"
    /\ \E retrieved \in BOOLEAN :
        sse' = (IF retrieved THEN Append(sse, SseEvent("message", "references"))
                ELSE sse)
    /\ apc' = "rag.save"
    /\ UNCHANGED <<epc, thread_id, streamVars, healthVars, coreVars>>

\* History and persistence (their failures are logged), then the metadata chunk.
RagMetadata ==
    /\ epc = "running" /\ apc = "rag.save"
    /\ sse' = Append(sse, SseEvent("metadata", thread_id))
    /\ apc' = "rag.end"
    /\ UNCHANGED <<epc, thread_id, streamVars, healthVars, coreVars>>

\* except Exception as e: yield {"type": "error", "data": str(e)}
RagFails ==
    /\ epc = "running" /\ apc \in {"rag.graph", "rag.save"}
    /\ sse' = Append(sse, SseEvent("error", "exception"))
    /\ apc' = "rag.end"
    /\ UNCHANGED <<epc, thread_id, streamVars, healthVars, coreVars>>

\* BaseAgent.stream: invoke, then the message chunk, the data chunk when the
\* result has data, the metadata chunk when it has metadata.
BaseStream ==
    /\ epc = "running" /\ apc = "base.invoke"
    /\ \E ok \in BOOLEAN, c \in TokenContents, hasData \in BOOLEAN, hasMetadata \in BOOLEAN :
        IF ok
        THEN /\ sse' = sse \o <<SseEvent("message", c)>>
                        \o (IF hasData THEN <<SseEvent("data", "data")>> ELSE <<>>)
                        \o (IF hasMetadata THEN <<SseEvent("metadata", "metadata")>>
                            ELSE <<>>)
             /\ apc' = "base.end"
             /\ UNCHANGED epc
        ELSE /\ sse' = AgentRaised
             /\ apc' = "raised"
             /\ epc' = "finished"
    /\ UNCHANGED <<thread_id, streamVars, healthVars, coreVars>>

\* The agent's generator is exhausted: event_generator yields the done event.
AgentEnds ==
    /\ epc = "running" /\ apc \in {"rag.end", "base.end"}
    /\ sse' = Append(sse, SseEvent("done", thread_id))
    /\ apc' = "ended"
    /\ epc' = "finished"
    /\ UNCHANGED <<thread_id, streamVars, healthVars, coreVars>>

NextAgentStream ==
    \/ StreamAgent
    \/ RagPreamble
    \/ RagToken
    \/ RagGraphEnds
    \/ RagMetadata
    \/ RagFails
    \/ BaseStream
    \/ AgentEnds

SpecAgentStream == Init /\ [][NextAgentStream]_vars

----------------------------------------------------------------------------
\* ServiceContainer (app/core/container.py): register, get, initialize_all and
\* shutdown_all.  The application builds one container, registers its services,
\* awaits initialize_all when it starts and shutdown_all when it stops
\* (app/main.py); get is called from anywhere in between.  All of it runs on one
\* event loop: a method runs alone from one await to the next.

Registered(fs, name) == \E i \in 1..Len(fs) : fs[i].name = name
IndexOf(fs, name) == CHOOSE i \in 1..Len(fs) : fs[i].name = name
Registration(fs, name) == fs[IndexOf(fs, name)]

\* self._factories[name] = {...}: a new key goes last, an old key keeps its place
SetFactory(fs, name, factory, singleton) ==
    LET entry == [name |-> name, factory |-> factory, singleton |-> singleton]
    IN  IF Registered(fs, name)
        THEN [fs EXCEPT ![IndexOf(fs, name)] = entry]
        ELSE Append(fs, entry)

CacheNothing(svcs, name, inst, singleton) == svcs

\* if singleton: self._services[name] = service
Cache(svcs, name, inst, singleton) ==
    IF singleton THEN (name :> inst) @@ svcs ELSE svcs

\* get(name, default), where the factory raises or returns its instance number
\* fresh: the result, the cache afterwards, and whether the factory was called
ContainerGet(svcs, fs, name, default, raises, fresh) ==
    IF name \in DOMAIN svcs
    THEN [result |-> svcs[name], services |-> svcs, called |-> FALSE, raised |-> FALSE]
    ELSE IF ~Registered(fs, name)
    THEN [result |-> default, services |-> svcs, called |-> FALSE, raised |-> FALSE]
    ELSE IF raises
    THEN [result |-> default, services |-> svcs, called |-> TRUE, raised |-> TRUE]
    ELSE LET reg == Registration(fs, name)
             inst == [id |-> fresh, factory |-> reg.factory]
         IN  [result |-> inst, services |-> Cache(svcs, name, inst, reg.singleton),
              called |-> TRUE, raised |-> FALSE]

\* The cache and the counters of factory calls, as one value.
Store(attempted) ==
    [services |-> services, instCount |-> instCount, okCalls |-> okCalls,
     factoryCalled |-> factoryCalled, attempted |-> attempted]

Stored(st, name, g) ==
    LET made == g.called /\ ~g.raised
    IN  [st EXCEPT !.services = g.services,
                   !.instCount = IF made THEN [@ EXCEPT ![name] = @ + 1] ELSE @,
                   !.okCalls = IF made THEN [@ EXCEPT ![name] = @ + 1] ELSE @,
                   !.factoryCalled = @ \/ g.called]

SetStore(st) ==
    /\ services' = st.services
    /\ instCount' = st.instCount
    /\ okCalls' = st.okCalls
    /\ factoryCalled' = st.factoryCalled

PassIdle == \A c \in Callers : initializer[c].pc = "idle"

\* The factory of a registration: a name is registered with f1, and registered
\* again with another factory, f2.
NewFactory(fs, name) == IF Registered(fs, name) THEN "f2" ELSE "f1"

\* register(name, factory, singleton).  A new name is registered while no pass of
\* initialize_all walks the dictionary.
Register ==
    /\ opCount < MaxCalls
    /\ \E name \in ServiceNames, singleton \in BOOLEAN :
        /\ Registered(factories, name) \/ PassIdle
        /\ factories' = SetFactory(factories, name, NewFactory(factories, name),
                                   singleton)
        /\ okCalls' = [okCalls EXCEPT ![name] = 0]
    /\ opCount' = opCount + 1
    /\ asked' = asked
    /\ lastGet' = NoGet
    /\ cstep' = "register"
    /\ UNCHANGED <<services, initialized_services, initialization_status, lock,
                   initializer, shutdown, instCount, factoryCalled, initLog, passLog,
                   shutLog>>
    /\ UNCHANGED notContainer

\* get(name, default)
Get ==
    /\ opCount < MaxCalls
    /\ \E name \in ServiceNames, default \in Defaults, raises \in BOOLEAN :
        LET g == ContainerGet(services, factories, name, default, raises,
                              instCount[name] + 1)
        IN  /\ SetStore(Stored(Store({}), name, g))
            /\ lastGet' = [name |-> name, default |-> default,
                           wasRegistered |-> Registered(factories, name),
                           wasCached |-> name \in DOMAIN services,
                           singleton |-> /\ Registered(factories, name)
                                         /\ Registration(factories, name).singleton,
                           called |-> g.called, raised |-> g.raised,
                           result |-> g.result]
    /\ opCount' = opCount + 1
    /\ asked' = TRUE
    /\ cstep' = "get"
    /\ UNCHANGED <<factories, initialized_services, initialization_status, lock,
                   initializer, shutdown, initLog, passLog, shutLog>>
    /\ UNCHANGED notContainer

\* The loop of initialize_all from entry i up to its next await: the entries whose
\* get returns None are passed over, the first other one is about to be initialized.
RECURSIVE PassAdvance(_, _, _)
PassAdvance(i, st, fails) ==
    IF i > Len(factories)
    THEN [await |-> FALSE, i |-> i, name |-> "", inst |-> NoInstance, st |-> st]
    ELSE LET name == factories[i].name
             g == ContainerGet(st.services, factories, name, NoInstance, fails[name],
                               st.instCount[name] + 1)
             st2 == [Stored(st, name, g) EXCEPT !.attempted = @ \cup {name}]
         IN  IF g.result = NoInstance
             THEN PassAdvance(i + 1, st2, fails)
             ELSE [await |-> TRUE, i |-> i, name |-> name, inst |-> g.result,
                   st |-> st2]

\* Caller c goes on from entry i: it awaits service.initialize(), which will raise
\* or not, or it is through and releases the lock.
PassContinue(c, i, attempted) ==
    \E fails \in [ServiceNames -> BOOLEAN], raises \in BOOLEAN :
        LET p == PassAdvance(i, Store(attempted), fails)
        IN  /\ SetStore(p.st)
            /\ IF p.await
               THEN /\ initializer' = [initializer EXCEPT ![c] =
                            [pc |-> "awaiting", i |-> p.i, name |-> p.name,
                             inst |-> p.inst, raises |-> raises]]
                    /\ initLog' = Append(initLog, [name |-> p.name, inst |-> p.inst,
                                                   raised |-> raises])
                    /\ lock' = c
                    /\ passLog' = [state |-> "running", attempted |-> p.st.attempted]
               ELSE /\ initializer' = [initializer EXCEPT ![c] = IdleInitializer]
                    /\ initLog' = initLog
                    /\ lock' = 0
                    /\ passLog' = [state |-> "complete", attempted |-> p.st.attempted]

NeverInitialized(status) == FALSE

\* if self._initialization_status: return
AlreadyInitialized(status) == status

\* initialize_all(), from taking the lock to its first await or its return
InitializeAll ==
    /\ opCount < MaxCalls
    /\ shutdown.pc = "idle"
    /\ lock = 0
    /\ \E c \in Callers :
        /\ initializer[c].pc = "idle"
        /\ IF AlreadyInitialized(initialization_status)
           THEN UNCHANGED <<initialization_status, services, instCount, okCalls,
                            factoryCalled, initializer, initLog, lock, passLog>>
           ELSE /\ initialization_status' = TRUE
                /\ PassContinue(c, 1, {})
    /\ opCount' = opCount + 1
    /\ asked' = TRUE
    /\ lastGet' = NoGet
    /\ cstep' = "initialize_all"
    /\ UNCHANGED <<factories, initialized_services, shutdown, shutLog>>
    /\ UNCHANGED notContainer

\* service.initialize() returns or raises, and the loop goes on
InitializeReturns ==
    /\ \E c \in Callers :
        /\ initializer[c].pc = "awaiting"
        /\ initialized_services' =
               IF initializer[c].raises THEN initialized_services
               ELSE initialized_services \cup {initializer[c].name}
        /\ PassContinue(c, initializer[c].i + 1, passLog.attempted)
    /\ lastGet' = NoGet
    /\ cstep' = "initialize"
    /\ UNCHANGED <<factories, initialization_status, shutdown, opCount, asked,
                   shutLog>>
    /\ UNCHANGED notContainer

\* The orders in which a list made of a set can hold its elements.
Orders(S) ==
    {q \in [1..Cardinality(S) -> S] : \A i, j \in 1..Cardinality(S) :
                                          i # j => q[i] # q[j]}

RECURSIVE SkipUncached(_, _)
\* service = self._services.get(name); if service is None: continue
SkipUncached(order, svcs) ==
    IF order = <<>> \/ Head(order) \in DOMAIN svcs THEN order
    ELSE SkipUncached(Tail(order), svcs)

\* shutdown_all goes on through the names left: it awaits the shutdown() of the
\* next cached one, which will raise or not, or it is through and clears the
\* container.
ShutdownContinue(order, log) ==
    LET rest == SkipUncached(order, services)
    IN  IF rest = <<>>
        THEN /\ services' = NoCached
             /\ initialized_services' = {}
             /\ initialization_status' = FALSE
             /\ shutdown' = IdleShutdown
             /\ shutLog' = log
             /\ initLog' = <<>>
             /\ okCalls' = NoCalls
             /\ passLog' = NoPass
             /\ cstep' = "cleared"
        ELSE /\ \E raises \in BOOLEAN :
                  shutLog' = Append(log, [name |-> Head(rest),
                                          inst |-> services[Head(rest)],
                                          raised |-> raises])
             /\ shutdown' = [pc |-> "awaiting", order |-> Tail(rest),
                             name |-> Head(rest), inst |-> services[Head(rest)]]
             /\ cstep' = "shutdown"
             /\ UNCHANGED <<services, initialized_services, initialization_status,
                            initLog, okCalls, passLog>>

\* shutdown_all(), up to its first await or its return
ShutdownAll ==
    /\ opCount < MaxCalls
    /\ shutdown.pc = "idle"
    /\ PassIdle
    /\ \E order \in Orders(initialized_services) : ShutdownContinue(order, <<>>)
    /\ opCount' = opCount + 1
    /\ asked' = asked
    /\ lastGet' = NoGet
    /\ UNCHANGED <<factories, lock, initializer, instCount, factoryCalled>>
    /\ UNCHANGED notContainer

\* service.shutdown() returns or raises, and the loop goes on
ShutdownReturns ==
    /\ shutdown.pc = "awaiting"
    /\ ShutdownContinue(shutdown.order, shutLog)
    /\ lastGet' = NoGet
    /\ UNCHANGED <<factories, lock, initializer, instCount, factoryCalled, opCount,
                   asked>>
    /\ UNCHANGED notContainer

NextContainer ==
    \/ Register
    \/ Get
    \/ InitializeAll
    \/ InitializeReturns
    \/ ShutdownAll
    \/ ShutdownReturns

SpecContainer == Init /\ [][NextContainer]_vars

----------------------------------------------------------------------------
\* ChatHistoryManager and MemoryChatHistoryManager (app/core/chat_history.py),
\* for one thread.  The callers run on one event loop and interleave at the awaits
\* that wait for Redis or MySQL.

\* message_dict = {"type": message.__class__.__name__, "content": message.content}
Serialize(message) == [type |-> message.cls, content |-> message.content]

RECURSIVE Deserialize(_)
\* the messages of a cached list: the entries of the three known types
Deserialize(data) ==
    IF data = <<>> THEN <<>>
    ELSE LET d == Head(data)
         IN  IF d.type \in {"HumanMessage", "AIMessage", "SystemMessage"}
             THEN <<[cls |-> d.type, content |-> d.content]>> \o Deserialize(Tail(data))
             ELSE Deserialize(Tail(data))

RECURSIVE FromRecords(_)
\* the messages of the records of MySQL, by role
FromRecords(records) ==
    IF records = <<>> THEN <<>>
    ELSE LET rec == Head(records)
             cls == IF rec.role = "user" THEN "HumanMessage"
                    ELSE IF rec.role = "assistant" THEN "AIMessage"
                    ELSE IF rec.role = "system" THEN "SystemMessage"
                    ELSE "none"
         IN  IF cls = "none" THEN FromRecords(Tail(records))
             ELSE <<[cls |-> cls, content |-> rec.content]>>
                      \o FromRecords(Tail(records))

\* if limit and len(messages) > limit: messages = messages[-limit:]
Cut(messages, limit) ==
    IF limit # 0 /\ Len(messages) > limit
    THEN SubSeq(messages, Len(messages) - limit + 1, Len(messages))
    ELSE messages

\* The manager get_chat_history_manager gave the application, and what MySQL
\* holds for the thread.
OpenHistory ==
    /\ hkind = "none"
    /\ hkind' \in {"redis", "memory"}
    /\ \E n \in 0..Len(DbRecords) : db' = SubSeq(DbRecords, 1, n)
    /\ UNCHANGED <<cache, reader, historyCalls>>
    /\ UNCHANGED notHistory

Returned(r, result) ==
    [r EXCEPT !.pc = "returned", !.result = Cut(result, r.limit)]

\* add_message(thread_id, message): the message is appended to the list, or Redis
\* fails and the call raises
AddMessage ==
    /\ hkind # "none"
    /\ historyCalls < MaxHistoryCalls
    /\ \E i \in 1..Len(AddedMessages), ok \in BOOLEAN :
        /\ \A j \in 1..Len(cache) : cache[j] # Serialize(AddedMessages[i])
        /\ ok \/ hkind = "redis"
        /\ cache' = IF ok THEN Append(cache, Serialize(AddedMessages[i])) ELSE cache
    /\ historyCalls' = historyCalls + 1
    /\ UNCHANGED <<hkind, db, reader>>
    /\ UNCHANGED notHistory

\* get_messages(thread_id, limit), step 1: the cached list is read; a read of
\* Redis that fails gives no messages
GetMessages ==
    /\ hkind # "none"
    /\ historyCalls < MaxHistoryCalls
    /\ \E r \in Readers, limit \in Limits, ok \in BOOLEAN :
        /\ reader[r].pc \in {"idle", "returned"}
        /\ ok \/ hkind = "redis"
        /\ LET messages == IF ok THEN Deserialize(cache) ELSE <<>>
               called == [IdleReader EXCEPT !.limit = limit, !.messages = messages,
                                            !.cacheAtRead = cache, !.readOk = ok]
           IN  reader' = [reader EXCEPT ![r] =
                             IF messages # <<>> THEN Returned(called, messages)
                             ELSE [called EXCEPT !.pc = "loading"]]
    /\ historyCalls' = historyCalls + 1
    /\ UNCHANGED <<hkind, cache, db>>
    /\ UNCHANGED notHistory

\* step 2: _load_from_mysql answers with the records of the thread, or with none
\* when MySQL is not there or fails; the memory manager restores what was loaded
\* at once, the Redis manager push by push
LoadFromMysql ==
    /\ \E r \in Readers, ok \in BOOLEAN :
        /\ reader[r].pc = "loading"
        /\ LET messages == IF ok THEN FromRecords(db) ELSE <<>>
               loaded == [reader[r] EXCEPT !.messages = messages, !.loaded = TRUE]
           IN  IF messages = <<>>
               THEN /\ reader' = [reader EXCEPT ![r] = Returned(loaded, messages)]
                    /\ cache' = cache
               ELSE IF hkind = "memory"
               THEN /\ reader' = [reader EXCEPT ![r] = Returned(loaded, messages)]
                    /\ cache' = cache \o [i \in 1..Len(messages) |->
                                             Serialize(messages[i])]
               ELSE /\ reader' = [reader EXCEPT ![r] = [loaded EXCEPT !.pc = "restoring"]]
                    /\ cache' = cache
    /\ UNCHANGED <<hkind, db, historyCalls>>
    /\ UNCHANGED notHistory

\* step 3, Redis: _restore_to_redis pushes the next message, or the push fails
\* and the restoring ends; get_messages returns what was loaded
RestoreToRedis ==
    /\ \E r \in Readers, ok \in BOOLEAN :
        /\ reader[r].pc = "restoring"
        /\ LET k == reader[r].k + 1
               pushed == [reader[r] EXCEPT !.k = k]
           IN  IF ~ok
               THEN /\ reader' = [reader EXCEPT ![r] =
                           Returned([reader[r] EXCEPT !.restoreFailed = TRUE],
                                    reader[r].messages)]
                    /\ cache' = cache
               ELSE /\ cache' = Append(cache, Serialize(reader[r].messages[k]))
                    /\ reader' = [reader EXCEPT ![r] =
                           IF k = Len(reader[r].messages)
                           THEN Returned(pushed, reader[r].messages)
                           ELSE pushed]
    /\ UNCHANGED <<hkind, db, historyCalls>>
    /\ UNCHANGED notHistory

NextHistory ==
    \/ OpenHistory
    \/ AddMessage
    \/ GetMessages
    \/ LoadFromMysql
    \/ RestoreToRedis

SpecHistory == Init /\ [][NextHistory]_vars

----------------------------------------------------------------------------
\* get_chat_history_manager (app/core/chat_history.py): the callers run on one
\* event loop and interleave at the await of ping.

\* return _chat_history_manager
ReturnManager(caller, manager, tested) ==
    [caller EXCEPT !.pc = "returned", !.got = manager,
                   !.tested = manager.kind = "memory" \/ manager.id \in tested]

\* The manager a call hands out after its ping: the global as it is then.
ReturnGlobal(caller, current, tested) == ReturnManager(caller, current, tested)

\* get_chat_history_manager(), up to its await of ping or its return
GetChatHistoryManager ==
    /\ managerCalls < MaxManagerCalls
    /\ \E c \in ManagerCallers, raises \in BOOLEAN :
        /\ mcaller[c].pc \in {"idle", "returned"}
        /\ IF chat_history_manager # NoManager
           THEN /\ mcaller' = [mcaller EXCEPT ![c] =
                       ReturnManager(IdleCaller, chat_history_manager, pinged)]
                /\ UNCHANGED <<chat_history_manager, managersMade>>
           ELSE LET made == [kind |-> IF raises THEN "memory" ELSE "redis",
                             id |-> managersMade + 1]
                IN  /\ chat_history_manager' = made
                    /\ managersMade' = managersMade + 1
                    /\ mcaller' = [mcaller EXCEPT ![c] =
                           IF raises THEN ReturnManager(IdleCaller, made, pinged)
                           ELSE [IdleCaller EXCEPT !.pc = "pinging", !.got = made]]
    /\ managerCalls' = managerCalls + 1
    /\ UNCHANGED pinged
    /\ UNCHANGED notManager

\* ping() has answered: the manager stays, or the memory manager takes its place
PingAnswers ==
    /\ \E c \in ManagerCallers, is_connected \in BOOLEAN :
        /\ mcaller[c].pc = "pinging"
        /\ IF is_connected
           THEN /\ pinged' = pinged \cup {mcaller[c].got.id}
                /\ UNCHANGED <<chat_history_manager, managersMade>>
                /\ mcaller' = [mcaller EXCEPT ![c] =
                       ReturnGlobal(mcaller[c], chat_history_manager, pinged')]
           ELSE LET made == [kind |-> "memory", id |-> managersMade + 1]
                IN  /\ chat_history_manager' = made
                    /\ managersMade' = managersMade + 1
                    /\ pinged' = pinged
                    /\ mcaller' = [mcaller EXCEPT ![c] =
                           ReturnGlobal(mcaller[c], made, pinged)]
    /\ UNCHANGED managerCalls
    /\ UNCHANGED notManager

NextManager ==
    \/ GetChatHistoryManager
    \/ PingAnswers

SpecManager == Init /\ [][NextManager]_vars

----------------------------------------------------------------------------
\* ApiKeyService (app/core/services/apikey_service.py) with
\* settings.apikey_service_enabled: threads call get_api_key_sync, the clock runs.

LockAlwaysFree(l) == TRUE

\* with self._lock_sync: the lock can be taken
LockFree(l) == l = 0

\* need_refresh
NeedRefresh(key, time_elapsed) ==
    \/ key = NoKey
    \/ time_elapsed >= apikey_expire_seconds - apikey_refresh_before_seconds

\* The call of thread t returns result and releases the lock.
ApiKeyReturn(c, result, key, time) ==
    [c EXCEPT !.pc = "returned", !.result = result, !.keyAfter = key,
              !.timeAfter = time]

\* get_api_key_sync(), from taking the lock to the remote call or the return
GetApiKeySync ==
    /\ LockFree(lock_sync)
    /\ \E t \in Threads :
        /\ kcaller[t].pc \in {"idle", "returned"}
        /\ LET called == [IdleThread EXCEPT !.current_time = now,
                                            !.keyBefore = api_key,
                                            !.timeBefore = fetch_time]
           IN  IF NeedRefresh(api_key, now - fetch_time)
               THEN /\ kcaller' = [kcaller EXCEPT ![t] =
                           [called EXCEPT !.pc = "fetching", !.fetched = TRUE]]
                    /\ lock_sync' = t
               ELSE /\ kcaller' = [kcaller EXCEPT ![t] =
                           ApiKeyReturn(called, api_key, api_key, fetch_time)]
                    /\ lock_sync' = lock_sync
    /\ UNCHANGED <<api_key, fetch_time, now, keysIssued>>
    /\ UNCHANGED notApiKey

\* an attempt of _fetch_api_key_sync gives a key: it is cached with the time at
\* which the call began
FetchSucceeds ==
    /\ keysIssued < MaxKeys
    /\ \E t \in Threads :
        /\ kcaller[t].pc = "fetching"
        /\ api_key' = RemoteKey(keysIssued + 1)
        /\ fetch_time' = kcaller[t].current_time
        /\ kcaller' = [kcaller EXCEPT ![t] =
               ApiKeyReturn([kcaller[t] EXCEPT !.ok = TRUE], api_key', api_key',
                            fetch_time')]
        /\ lock_sync' = IF lock_sync = t THEN 0 ELSE lock_sync
    /\ keysIssued' = keysIssued + 1
    /\ UNCHANGED now
    /\ UNCHANGED notApiKey

\* an attempt of _fetch_api_key_sync fails: it is tried again, or it was the last
\* one and get_api_key_sync returns the old key or the configured one
FetchFails ==
    /\ \E t \in Threads :
        /\ kcaller[t].pc = "fetching"
        /\ IF kcaller[t].attempt + 1 < max_retries
           THEN /\ kcaller' = [kcaller EXCEPT ![t].attempt = @ + 1]
                /\ lock_sync' = lock_sync
           ELSE /\ kcaller' = [kcaller EXCEPT ![t] =
                       ApiKeyReturn([kcaller[t] EXCEPT !.attempt = @ + 1],
                                    IF api_key # NoKey THEN api_key ELSE llm_api_key,
                                    api_key, fetch_time)]
                /\ lock_sync' = IF lock_sync = t THEN 0 ELSE lock_sync
    /\ UNCHANGED <<api_key, fetch_time, now, keysIssued>>
    /\ UNCHANGED notApiKey

\* time passes
Tick ==
    /\ now < MaxTime
    /\ now' = now + 1
    /\ UNCHANGED <<api_key, fetch_time, lock_sync, keysIssued, kcaller>>
    /\ UNCHANGED notApiKey

\* shutdown(), when the application stops and no call is under way
ApiKeyShutdown ==
    /\ lock_sync = 0
    /\ api_key # NoKey
    /\ api_key' = NoKey
    /\ fetch_time' = 0
    /\ UNCHANGED <<lock_sync, now, keysIssued, kcaller>>
    /\ UNCHANGED notApiKey

NextApiKey ==
    \/ GetApiKeySync
    \/ FetchSucceeds
    \/ FetchFails
    \/ Tick
    \/ ApiKeyShutdown

SpecApiKey == Init /\ [][NextApiKey]_vars

----------------------------------------------------------------------------
\* Vocabulary of the properties.

Last(q) == q[Len(q)]
Count(q, x) == Cardinality({i \in 1..Len(q) : q[i] = x})
IsTerminal(e) == e.type \in {"done", "error"}
Terminals == {i \in 1..Len(events) : IsTerminal(events[i])}
\* The chunks of the translator's last step.
LastOut == SubSeq(events, nPrev + 1, Len(events))
GenEnded == gpc \in {"finished", "raised", "cancelled"}
\* The stream ran to its end and met neither an exception nor an upstream error.
CompletedOk ==
    /\ gpc = "finished"
    /\ failure = "none"
    /\ \A i \in 1..Len(events) : events[i].type # "error"

RECURSIVE Concat(_)
\* The entries of a list, joined.
Concat(list) == IF list = <<>> THEN <<>> ELSE Head(list) \o Concat(Tail(list))

RECURSIVE IsSubsequence(_, _)
IsSubsequence(a, b) ==
    IF a = <<>> THEN TRUE
    ELSE IF b = <<>> THEN FALSE
    ELSE IF Head(a) = Head(b) THEN IsSubsequence(Tail(a), Tail(b))
    ELSE IsSubsequence(a, Tail(b))

----------------------------------------------------------------------------

\* C1: every stream a translator produces ends with exactly one terminal event
\* (type done or error) and nothing is emitted after it, also when the upstream
\* body ends without a completion marker.
C1_ExactlyOneTerminalEvent ==
    /\ \A i \in Terminals : i = Len(events)
    /\ (gpc \in {"finished", "raised"} =>
            /\ events # <<>>
            /\ IsTerminal(Last(events)))

\* Lines and events that carry content (Dify and multi-agent translators).
IsMalformedLine(l) == l.k \in {"nonjson", "malformed"}
DifyContentLine(l) ==
    l.k = "json" /\ l.event = "message" /\ l.answer # <<>> /\ ~Contains(l.answer, LOADING)
MultiContentLine(l) ==
    l.k = "json" /\ l.content # <<>> /\ ~Contains(l.content, LOADING)
    /\ ~Contains(l.content, THOUGHT)
ContentOfLines ==
    IF gen = "dify"
    THEN LET q == SelectSeq(linesRead, DifyContentLine)
         IN  [i \in 1..Len(q) |-> q[i].answer]
    ELSE LET q == SelectSeq(linesRead, MultiContentLine)
         IN  [i \in 1..Len(q) |-> Remove(q[i].content, FLAG)]
IsContentEvent(e) == e.type # "loading" /\ Remove(e.content, FoldPrefix) # <<>>
ContentOfEvents ==
    LET q == SelectSeq(events, IsContentEvent)
    IN  [i \in 1..Len(q) |-> Remove(q[i].content, FoldPrefix)]

\* C2: with malformed lines interleaved among valid content lines, the translator
\* emits one content-bearing event per valid content line, in arrival order, and
\* nothing for a malformed line; a malformed line never ends the stream.
C2_MalformedLinesSkipped ==
    gen \in {"dify", "multi"} =>
        /\ (lastStep = "line" /\ IsMalformedLine(Last(linesRead)) =>
                gpc = "running" /\ LastOut = <<>>)
        /\ (failure = "none" => ContentOfEvents = ContentOfLines)

\* C3: a handler that gets no conversation_id generates one and schedules exactly
\* one session-creation task and one summary task; a handler that gets a
\* conversation_id schedules neither and uses the id unchanged.
C3_SessionTasksOnlyForNewConversation ==
    handler # "none" =>
        IF req.cid = NoId
        THEN /\ conversation_id = NewConversationId
             /\ Count(tasks, "save_conversation_async") = 1
             /\ Count(tasks, "gen_summary_async") = 1
        ELSE /\ conversation_id = req.cid
             /\ Count(tasks, "save_conversation_async") = 0
             /\ Count(tasks, "gen_summary_async") = 0

\* The events that carry answer text, and their text.
IsMessageEvent(e) ==
    \/ e.type = "message"
    \/ e.event \in {"message", "message_end"}
    \/ (e.type = "" /\ e.event = "" /\ e.hasContent)
MessageTexts ==
    LET q == SelectSeq(events, IsMessageEvent)
    IN  [i \in 1..Len(q) |-> q[i].content]

SavedFor(e) ==
    IF gen = "agentflow"
    THEN (IF e.type = "message" THEN <<e.content>>
          ELSE IF e.type = "data" THEN <<e.data>> ELSE <<>>)
    ELSE IF e.event \in {"message", "message_end"}
    THEN (IF Remove(e.content, FoldPrefix) # <<>>
          THEN <<Remove(e.content, FoldPrefix)>> ELSE <<>>)
         \o (IF e.metadata # <<>> THEN <<MetadataDumps(e.metadata)>> ELSE <<>>)
    ELSE <<>>

IsDifyLoadingLine(l) ==
    l.k = "json" /\ l.event = "message" /\ l.hasAnswer /\ Contains(l.answer, LOADING)

\* C5: in dify_stream_generator a message whose answer is loading...|S1|S2 yields
\* Len(S2) loading events, the i-th with loadingText S1 \n\n S2[1..i], no other
\* event and nothing in answers, for every length of S2 and also when the marker
\* has no third segment.
C5_DifyLoadingReveal ==
    (gen = "dify" /\ lastStep = "line" /\ IsDifyLoadingLine(Last(linesRead))) =>
        LET seg == Split(Last(linesRead).answer)
            S1 == IF Len(seg) >= 2 THEN seg[2] ELSE <<>>
            S2 == IF Len(seg) >= 3 THEN seg[3] ELSE <<>>
        IN  /\ gpc = "running"
            /\ Len(LastOut) = Len(S2)
            /\ \A i \in 1..Len(LastOut) :
                /\ LastOut[i].type = "loading"
                /\ LastOut[i].loadingText = S1 \o <<NL2>> \o SubSeq(S2, 1, i)
            /\ Len(answers) = aPrev

\* C6: when the upstream call answers with a non-success status, the caller gets
\* a stream of one terminal error event with no message event before it, and the
\* adapter's session/connection is closed exactly once.
C6_UpstreamStatusEndsInBand ==
    (handler # "none" /\ req.upstream = "http503" /\ upstreamCalls > 0) =>
        /\ Len(events) = 1
        /\ events[1].type = "error"
        /\ closeCalls = 1

\* C7: a translator that has ended (normal completion, exception, terminal event,
\* consumer cancellation) has released the upstream connection/session exactly once.
C7_ReleasedExactlyOnce ==
    GenEnded => closeCalls = 1

\* C8: when reading the upstream body or handling a line raises after streaming
\* began, the stream ends in-band with exactly one event of type error that
\* carries finished: true, and the exception does not leave the translator.
C8_FailureEndsWithErrorEvent ==
    failure # "none" =>
        /\ gpc = "finished"
        /\ events # <<>>
        /\ Last(events).type = "error"
        /\ Last(events).finished
        /\ Cardinality({i \in 1..Len(events) : events[i].type = "error"}) = 1

C10_EveryEventCarriesIds ==
    \A i \in 1..Len(events) :
        /\ events[i].conversation_id = conversation_id
        /\ events[i].message_id = message_id

\* The response is over: the translator has ended and the background task of the
\* response has run or will never run.
ResponseOver ==
    /\ pc = "streaming"
    /\ GenEnded
    /\ ~(gpc \in {"finished", "cancelled"} /\ Len(saved) < Len(background))

\* C11: save_messages_async, added as the background task of the response, runs
\* exactly once per streaming response, only after the translator has ended, and
\* the two lists it reads hold everything the translator appended.
C11_FinalizeOnceAfterTerminal ==
    /\ Len(saved) <= 1
    /\ (saved # <<>> =>
            /\ GenEnded
            /\ saved[1] = [answers |-> answers, thought |-> thought])
    /\ (ResponseOver => Len(saved) = 1)

\* C12: whatever headers the upstream response carries, the headers of a
\* streaming response hold Cache-Control: no-cache, Connection: keep-alive,
\* X-Accel-Buffering: no and Content-Encoding: identity, and no header of one of
\* these four names holds another value.
C12_ForcedHeadersKept ==
    pc = "streaming" =>
        /\ DOMAIN ForcedHeaders \subseteq DOMAIN headers
        /\ \A k \in DOMAIN headers : \A f \in DOMAIN ForcedHeaders :
                Lower(k) = Lower(f) => headers[k] = ForcedHeaders[f]

\* The services of the response that are unhealthy.
UnhealthyServices ==
    {n \in DOMAIN services_status : services_status[n].status = "unhealthy"}

\* C13: the status health_check returns is healthy exactly when every checked
\* service is healthy, unhealthy exactly when the LLM service is missing or fails,
\* degraded exactly when a service other than the LLM service is unhealthy and
\* the LLM service is not; once a check has made the status unhealthy no later
\* check of the request lowers it; critical_services_down is non-empty exactly
\* when the status is unhealthy.
C13_HealthStatus ==
    /\ ("llm" \in UnhealthyServices =>
            overall_status = "unhealthy" /\ critical_services_down = <<"llm">>)
    /\ (hpc = "done" =>
            /\ (overall_status = "healthy" <=> UnhealthyServices = {})
            /\ (overall_status = "unhealthy" <=> "llm" \in UnhealthyServices)
            /\ (overall_status = "degraded" <=>
                    UnhealthyServices # {} /\ "llm" \notin UnhealthyServices)
            /\ (critical_services_down # <<>> <=> overall_status = "unhealthy"))

\* C13 witness: the LLM service is missing and a store checked after it is
\* unhealthy too; the request has run every check.
C13_Witness ==
    /\ hpc = "done"
    /\ services_status["llm"].detail = "missing"
    /\ "mongodb" \in UnhealthyServices
    /\ "redis" \in UnhealthyServices
    /\ overall_status = "unhealthy"

Front(q) == SubSeq(q, 1, Len(q) - 1)

RECURSIVE SelectedType(_)
\* The event type that applies to the next data line after the lines read: the
\* type of the most recent event line, none once a data line with a payload has
\* used it.
SelectedType(lines) ==
    IF lines = <<>> THEN NoEventType
    ELSE LET l == Last(lines)
         IN  IF l.k = "event" THEN l.type
             ELSE IF l.k = "data" /\ l.form # "empty" THEN NoEventType
             ELSE SelectedType(Front(lines))

\* json.dumps of the object a payload that is not JSON is wrapped in.
WrappedRaw(text) == <<"{", "text:">> \o text \o <<"}">>

\* C14: in agentflow_stream_generator an event line selects the type of the next
\* data line only: a data line is translated as the most recent event line says
\* (a forwarded event has that type; data, metadata, done and error lines are
\* always forwarded), the selection is cleared by that data line, a data line
\* with no selection yields no event, a payload that is not JSON is translated
\* as the object {"text": payload}, and no line is read after a done or error
\* event was forwarded.
C14_EventLineSelectsNextData ==
    gen = "agentflow" =>
        /\ (gpc = "running" => current_event_type = SelectedType(linesRead))
        /\ (Terminals # {} => gpc # "running")
        /\ (lastStep = "line" /\ Last(linesRead).k = "data"
                /\ Last(linesRead).form # "empty" =>
                LET l == Last(linesRead)
                    sel == SelectedType(Front(linesRead))
                IN  /\ Len(LastOut) <= 1
                    /\ \A i \in 1..Len(LastOut) : LastOut[i].type = sel
                    /\ (sel \in {"data", "metadata", "done", "error"} => Len(LastOut) = 1)
                    /\ (sel \notin {"message", "data", "metadata", "done", "error"} =>
                            LastOut = <<>>)
                    /\ (l.form = "raw" /\ sel = "message" => LastOut[1].content = l.text)
                    /\ (l.form = "raw" /\ sel = "data" =>
                            LastOut[1].data = WrappedRaw(l.text))
                    /\ (l.form = "raw" /\ sel = "metadata" =>
                            LastOut[1].context = WrappedRaw(l.text)))

\* A coordinator chunk whose content is the loading value prefix|label|text.
IsMultiLoadingLine(l) ==
    /\ l.k = "json" /\ l.agent = "coordinator" /\ l.hasContent
    /\ Contains(l.content, LOADING)
    /\ Len(Split(l.content)) = 3

\* C15: once the coordinator has finished its turn, a coordinator chunk whose
\* content is loading...|label|text yields Len(text) loading events, the i-th
\* revealing text[1..i], then exactly one loading event that announces the
\* planning of the task, and appends nothing to answers.
C15_MultiLoadingReveal ==
    (gen = "multi" /\ lastStep = "line" /\ is_coordinator_thought
        /\ IsMultiLoadingLine(Last(linesRead))) =>
        LET text == Split(Last(linesRead).content)[3]
            n == Len(text)
        IN  /\ gpc = "running"
            /\ Len(LastOut) = n + 1
            /\ \A i \in 1..Len(LastOut) : LastOut[i].type = "loading"
            /\ \A i \in 1..n :
                    i <= Len(LastOut) => LastOut[i].loadingText = IntentPrefix \o SubSeq(text, 1, i)
            /\ LastOut[Len(LastOut)].loadingText = PlanningText
            /\ Len(answers) = aPrev

\* A chunk whose content holds the thought tag, and its text without the tag.
IsThoughtLine(l) == l.k = "json" /\ l.content # <<>> /\ Contains(l.content, THOUGHT)
ThoughtText(l) == Remove(l.content, THOUGHT)
HasThought(e) == e.thought # <<>>

\* C16: in multi_agent_stream_generator the text of a thought-tagged chunk, the
\* tag removed, is sent one character per event in order, is appended to the
\* thought list exactly once per chunk, is never appended to answers and is in no
\* event's content field.
C16_ThoughtSideChannel ==
    gen = "multi" =>
        /\ (gpc = "running" =>
                LET q == SelectSeq(linesRead, IsThoughtLine)
                IN  thought = [i \in 1..Len(q) |-> ThoughtText(q[i]) \o <<NL3>>])
        /\ (lastStep = "line" /\ failure = "none" /\ IsThoughtLine(Last(linesRead)) =>
                LET text == ThoughtText(Last(linesRead))
                    sent == SelectSeq(LastOut, HasThought)
                IN  /\ Len(sent) = Len(text)
                    /\ \A i \in 1..Len(sent) : sent[i].thought = <<text[i]>>
                    /\ \A i \in 1..Len(LastOut) : LastOut[i].content = <<>>
                    /\ Len(answers) = aPrev)

\* A chunk with content that is neither the loading marker nor thought-tagged and
\* is not empty once the flag tag is removed.
IsPlainContentLine(l) ==
    /\ l.k = "json" /\ l.content # <<>>
    /\ ~Contains(l.content, LOADING) /\ ~Contains(l.content, THOUGHT)
    /\ Remove(l.content, FLAG) # <<>>

\* C17: after the loading phase of multi_agent_stream_generator every chunk with
\* content that is neither the loading marker nor thought-tagged is forwarded as
\* exactly one event and its content, the flag tag removed, is appended exactly
\* once to answers.
C17_ContentForwardedAndSaved ==
    (gen = "multi" /\ lastStep = "line" /\ failure = "none" /\ is_coordinator_thought
        /\ IsPlainContentLine(Last(linesRead))) =>
        LET text == Remove(Last(linesRead).content, FLAG)
        IN  /\ Len(LastOut) = 1
            /\ LastOut[1].content = text
            /\ answers = SubSeq(answers, 1, aPrev) \o <<text>>

\* A Dify payload of event message or message_end that carries citation metadata.
IsDifyMetadataLine(l) ==
    l.k = "json" /\ l.event \in {"message", "message_end"} /\ l.metadata # <<>>

\* C18: when a Dify message or message_end payload carries citation metadata,
\* the serialised metadata is appended to answers exactly once, whether or not
\* the payload has an answer field, and is not part of the event sent to the
\* caller.
C18_MetadataSavedNotSent ==
    (gen = "dify" /\ lastStep = "line" /\ failure = "none"
        /\ IsDifyMetadataLine(Last(linesRead))) =>
        LET m == MetadataDumps(Last(linesRead).metadata)
            added == SubSeq(answers, aPrev + 1, Len(answers))
        IN  /\ Count(added, m) = 1
            /\ \A i \in 1..Len(LastOut) : LastOut[i].metadata = <<>>

\* The phase an event belongs to: the intent (loading) phase or the content phase.
IsLoadingEvent(e) == e.type = "loading"
IsAnswerEvent(e) ==
    ~IsLoadingEvent(e) /\ e.hasContent /\ e.content # <<>> /\ ~Contains(e.content, THOUGHT)

\* C19: a Dify or multi-agent stream goes from awaiting intent to streaming
\* content to its end and never back: once the first content event was sent no
\* loading event follows.
C19_NoLoadingAfterContent ==
    gen \in {"dify", "multi"} =>
        \A i \in 1..Len(events) : \A j \in 1..Len(events) :
            (i < j /\ IsAnswerEvent(events[i])) => ~IsLoadingEvent(events[j])

SseTerminals == {i \in 1..Len(sse) : sse[i].event \in {"done", "error"}}

\* C20: the SSE stream of /agent/stream holds exactly one terminal event, done or
\* error, and it is the last event; after an error event, raised by the agent or
\* yielded by it as a chunk, no done event follows.
C20_AgentStreamOneTerminal ==
    /\ \A i \in SseTerminals : i = Len(sse)
    /\ (epc = "finished" => Cardinality(SseTerminals) = 1)

----------------------------------------------------------------------------
\* ServiceContainer

SingletonNames ==
    {factories[i].name : i \in {j \in 1..Len(factories) : factories[j].singleton}}

\* C21: get is lazy and keeps singletons.  The factory of a name registered with
\* singleton=True returns an instance at most once between the registration and
\* shutdown_all, and a get of that name returns the cached instance; no factory is
\* called before the first get or initialize_all; get calls the factory exactly
\* when the name is registered and not cached, and when the factory raises get
\* returns the default and caches nothing.
C21_GetLazySingleton ==
    /\ \A n \in SingletonNames : okCalls[n] <= 1
    /\ (factoryCalled => asked)
    /\ (cstep = "get" =>
           /\ lastGet.called = (lastGet.wasRegistered /\ ~lastGet.wasCached)
           /\ (lastGet.raised =>
                  /\ lastGet.result = lastGet.default
                  /\ lastGet.name \notin DOMAIN services)
           /\ (lastGet.singleton /\ ~lastGet.raised =>
                  /\ lastGet.name \in DOMAIN services
                  /\ lastGet.result = services[lastGet.name]))

\* a get of a singleton that was cached returns the one instance its factory made
C21_Witness ==
    /\ cstep = "get"
    /\ lastGet.singleton /\ lastGet.wasCached
    /\ okCalls[lastGet.name] = 1
    /\ lastGet.result = services[lastGet.name]
    /\ lastGet.result.id >= 1

\* C22: registering a name again overrides the earlier registration.  A get of a
\* registered name that returns an instance returns one made by the factory the
\* name is registered with now, also when an instance of the earlier factory was
\* cached.
C22_ReRegisterOverrides ==
    (cstep = "get" /\ lastGet.wasRegistered /\ ~lastGet.raised) =>
        lastGet.result.factory = Registration(factories, lastGet.name).factory

RegisteredNames == {factories[i].name : i \in 1..Len(factories)}
InitializeCalls(n) == Cardinality({i \in 1..Len(initLog) : initLog[i].name = n})
Awaited ==
    {initializer[c].name : c \in {d \in Callers : initializer[d].pc = "awaiting"}}

C23_State ==
    /\ \A n \in ServiceNames : InitializeCalls(n) <= 1
    /\ \A i \in 1..Len(initLog) :
           initLog[i].name \in initialized_services <=>
               (~initLog[i].raised /\ initLog[i].name \notin Awaited)

C23_SecondCall ==
    (cstep' = "initialize_all" /\ initialization_status) =>
        UNCHANGED <<factories, services, initialized_services, initialization_status,
                    lock, initializer, initLog, passLog, okCalls, instCount>>

C23_PassThrough ==
    (passLog.state # "complete" /\ passLog'.state = "complete") =>
        passLog'.attempted = RegisteredNames

LogIndex(log, n) ==
    IF \E i \in 1..Len(log) : log[i].name = n
    THEN CHOOSE i \in 1..Len(log) : log[i].name = n
    ELSE 0

C24_ReverseOrder ==
    \A a, b \in ServiceNames :
        (/\ LogIndex(initLog, a) > 0
         /\ LogIndex(initLog, a) < LogIndex(initLog, b)
         /\ LogIndex(shutLog', a) > 0
         /\ LogIndex(shutLog', b) > 0) =>
            LogIndex(shutLog', b) < LogIndex(shutLog', a)

C24_AllShutDown ==
    \A n \in initialized_services \cap DOMAIN services : LogIndex(shutLog', n) > 0

C24_Cleared ==
    /\ services' = NoCached
    /\ initialized_services' = {}
    /\ ~initialization_status'
    /\ lock' = 0

\* C24: when shutdown_all returns, it has called shutdown in the reverse of the
\* order in which initialize_all called initialize, it has called the shutdown of
\* every initialized service that is cached, whether or not an earlier shutdown
\* raised, and it leaves the container without instances and not initialized.
C24_ShutdownReverse ==
    [][cstep' = "cleared" => (C24_ReverseOrder /\ C24_AllShutDown /\ C24_Cleared)]_vars

ShutDown(log) == {[name |-> log[i].name, inst |-> log[i].inst] : i \in 1..Len(log)}

\* C25: when shutdown_all returns, it has called the shutdown of every instance
\* whose initialize was called by initialize_all and returned, whether the service
\* is registered with singleton=True or with singleton=False.
C25_InitializedAreShutDown ==
    [][cstep' = "cleared" =>
          \A i \in 1..Len(initLog) :
              ~initLog[i].raised =>
                  [name |-> initLog[i].name, inst |-> initLog[i].inst]
                      \in ShutDown(shutLog')]_vars

----------------------------------------------------------------------------
\* The chat history

ReturnedReaders == {r \in Readers : reader[r].pc = "returned"}
Serialized(messages) == [i \in 1..Len(messages) |-> Serialize(messages[i])]

\* C26: a get_messages that returned went to the database only when the cache
\* held no message for the thread; what it loaded from the database is in the
\* cache afterwards; its result is the cached messages, or else the loaded ones,
\* in their order, cut to the last limit of them when a limit is given.
C26_CacheFirstThenDb ==
    \A r \in ReturnedReaders :
        LET c == reader[r]
        IN  /\ (c.loaded => Deserialize(c.cacheAtRead) = <<>>)
            /\ (c.loaded => IsSubsequence(Serialized(c.messages), cache))
            /\ c.result = Cut(IF c.loaded THEN c.messages
                              ELSE Deserialize(c.cacheAtRead), c.limit)
            /\ Len(c.result) = IF c.limit = 0 \/ Len(c.messages) < c.limit
                               THEN Len(c.messages) ELSE c.limit

\* C27: restoring from the database never duplicates: each message stored in the
\* database is at most once in the list cached for the thread.
C27_RestoreNeverDuplicates ==
    \A i \in 1..Len(DbRecords) :
        Count(cache, Serialize(FromRecords(<<DbRecords[i]>>)[1])) <= 1

----------------------------------------------------------------------------
\* get_chat_history_manager

ServedCallers == {c \in ManagerCallers : mcaller[c].pc = "returned"}

\* C28: get_chat_history_manager hands out one manager: all the callers that
\* were served hold the same instance, and none of them holds a Redis manager
\* that had not passed its ping when it was handed out and that the memory
\* manager has replaced since.
C28_OneManager ==
    /\ \A c, d \in ServedCallers : mcaller[c].got = mcaller[d].got
    /\ \A c \in ServedCallers :
           ~(/\ mcaller[c].got.kind = "redis"
             /\ ~mcaller[c].tested
             /\ chat_history_manager.kind = "memory")

----------------------------------------------------------------------------
\* ApiKeyService

ReturnedThreads == {t \in Threads : kcaller[t].pc = "returned"}
Fetching == {t \in Threads : kcaller[t].pc = "fetching"}

C29_Call(c) ==
    /\ c.fetched <=>
           \/ c.keyBefore = NoKey
           \/ c.current_time - c.timeBefore >=
                  apikey_expire_seconds - apikey_refresh_before_seconds
    /\ c.result # NoKey
    /\ (~c.fetched => c.result = c.keyBefore)
    /\ (c.fetched /\ c.ok =>
           /\ c.result = c.keyAfter
           /\ c.timeAfter = c.current_time)
    /\ (c.fetched /\ ~c.ok =>
           c.result = IF c.keyBefore # NoKey THEN c.keyBefore ELSE llm_api_key)
    /\ (~(c.fetched /\ c.ok) =>
           /\ c.keyAfter = c.keyBefore
           /\ c.timeAfter = c.timeBefore)

====
